---- MODULE Spec2Model ----
(***************************************************************************)
(* A model of the plate query construction engine: types.State (aliases,   *)
(* relationship path, parameter list), the expression options of           *)
(* types.Column and query.And/Or/Not, the join composers                   *)
(* query.DirectJoin / query.JunctionJoin and the assembler query.Select.   *)
(*                                                                         *)
(* A Select call is a Go call stack: Select applies its options in order,  *)
(* a relationship accessor opens State.WithRelationship and applies its    *)
(* nested options inside it.  The model runs one or more Select calls,     *)
(* each with its own State and ast.Query, one option application per step; *)
(* frames[c] is the stack of open WithRelationship activations of call c.  *)
(***************************************************************************)
EXTENDS Integers, Sequences, FiniteSets, TLC

VARIABLES
    pc,      \* pc[c]: position of Select call c: "idle", "running", "done", "panicked"
    s,       \* s[c]: the types.State of call c
    q,       \* q[c]: the ast.Query (its ast.Select) of call c
    frames,  \* frames[c]: open WithRelationship activations, innermost last
    hist,    \* hist[c]: the options call c was given so far, and the last built expression
    ret,     \* ret[c]: what Select returned
    gen      \* gen[r]: generator run r: its Generator fields, position, locals and result

vars == <<pc, s, q, frames, hist, ret, gen>>

\* the variables of the Select calls
selectVars == <<pc, s, q, frames, hist, ret>>

(***************************************************************************)
(* Bounds of the model.                                                    *)
(***************************************************************************)
\* option applications per Select call (nested ones included)
MaxOpts == 3
\* option applications per Select call when two calls run side by side
MaxOptsPair == 2
\* sub-expressions of one And/Or
MaxArgs == 3
\* option applications per Select call when subqueries are composed
MaxOptsSub == 3
\* predicates applied before the combinator under study
MaxPrior == 1

(***************************************************************************)
(* memefish ast nodes, as records tagged by k.                             *)
(***************************************************************************)
Nil == [k |-> "nil"]

Path(qualifier, column) == [k |-> "path", idents |-> <<qualifier, column>>]

\* fmt.Sprintf("p%d", i)
ParamName(i) == "p" \o ToString(i)

Param(i) == [k |-> "param", name |-> ParamName(i)]

BinaryExpr(op, left, right) == [k |-> "binary", op |-> op, left |-> left, right |-> right]

ParenExpr(e) == [k |-> "paren", expr |-> e]

UnaryExpr(op, e) == [k |-> "unary", op |-> op, expr |-> e]

TableName(name, as) == [k |-> "table", name |-> name, as |-> as]

(***************************************************************************)
(* types.State                                                             *)
(***************************************************************************)
ZeroState ==
    [Tables |-> {}, Params |-> <<>>, RelationshipPath |-> <<>>, SubqueryColumns |-> <<>>]

RECURSIVE JoinStrings(_, _)
\* strings.Join(elems, sep)
JoinStrings(elems, sep) ==
    IF Len(elems) = 0 THEN ""
    ELSE IF Len(elems) = 1 THEN elems[1]
    ELSE elems[1] \o sep \o JoinStrings(Tail(elems), sep)

\* State.CurrentAlias joining the whole path, the root included
CurrentAliasWholePath(st) == JoinStrings(st.RelationshipPath, "_")

\* State.CurrentAlias
CurrentAlias(st) ==
    IF Len(st.RelationshipPath) = 0 THEN ""
    ELSE IF Len(st.RelationshipPath) = 1 THEN st.RelationshipPath[1]
    ELSE JoinStrings(Tail(st.RelationshipPath), "_")

\* State.registerRelationship: push the name, register the alias of the new path
registerRelationship(st, relationshipName) ==
    LET pushed == [st EXCEPT !.RelationshipPath = Append(@, relationshipName)]
        alias  == CurrentAlias(pushed)
    IN  [st |-> [pushed EXCEPT !.Tables = @ \cup {alias}], alias |-> alias]

\* State.RegisterJunction naming the junction by its table name alone
RegisterJunctionBareName(st, tableName) ==
    [st |-> [st EXCEPT !.Tables = @ \cup {tableName}], alias |-> tableName]

\* State.RegisterJunction: an alias from the current alias, the path untouched
RegisterJunction(st, tableName) ==
    LET currentAlias == CurrentAlias(st)
        alias == IF currentAlias # "" THEN currentAlias \o "_" \o tableName ELSE tableName
    IN  [st |-> [st EXCEPT !.Tables = @ \cup {alias}], alias |-> alias]

\* State.WithRelationship up to the call of fn: save the path, register
WithRelationshipEnter(st, relationshipName) ==
    LET basePath == st.RelationshipPath
        reg      == registerRelationship(st, relationshipName)
    IN  [st |-> reg.st, alias |-> reg.alias, basePath |-> basePath]

\* State.WithRelationship without the assignment that restores the path
WithRelationshipReturnKeeps(st, basePath) == st

\* State.WithRelationship after fn returned: restore the saved path
WithRelationshipReturn(st, basePath) ==
    [st EXCEPT !.RelationshipPath = basePath]

\* State.WithRelationship when fn panics: the function has no deferred call,
\* the statement after fn(alias) is not run
WithRelationshipUnwind(st, basePath) == st

(***************************************************************************)
(* Expression options.  An ExprOption is a closure over State and an       *)
(* expression pointer; the model holds it as a descriptor of the call that *)
(* made it and runs it with CallExprOption(st, opt, expr), which yields    *)
(* the State and the pointed-to expression afterwards.                     *)
(***************************************************************************)
OpOption(col, op, value) == [k |-> "Op", col |-> col, op |-> op, value |-> value]

BetweenOption(col, min, max) == [k |-> "Between", col |-> col, min |-> min, max |-> max]

InOption(col, values) == [k |-> "In", col |-> col, values |-> values]

IsNullOption(col, not) == [k |-> "IsNull", col |-> col, not |-> not]

LogicalOption(op, opts) == [k |-> "logicalOp", op |-> op, opts |-> opts]

NotOption(opt) == [k |-> "Not", opt |-> opt]

\* Column.Op qualifying the column with the root table, not the current alias
ColumnOpRootQualified(st, col, op, value) ==
    LET i == Len(st.Params)
        st1 == [st EXCEPT !.Params = Append(@, value)]
    IN  [st |-> st1,
         expr |-> BinaryExpr(op, Path(st1.RelationshipPath[1], col), Param(i))]

\* Column.Op
ColumnOp(st, col, op, value) ==
    LET i == Len(st.Params)
        st1 == [st EXCEPT !.Params = Append(@, value)]
    IN  [st |-> st1,
         expr |-> BinaryExpr(op, Path(CurrentAlias(st1), col), Param(i))]

\* Column.Between with maxIdx read before min is appended
ColumnBetweenSameIndex(st, col, min, max) ==
    LET minIdx == Len(st.Params)
        maxIdx == Len(st.Params)
        st2 == [st EXCEPT !.Params = Append(Append(@, min), max)]
    IN  [st |-> st2,
         expr |-> [k |-> "between", not |-> FALSE,
                   left |-> Path(CurrentAlias(st2), col),
                   start |-> Param(minIdx), end |-> Param(maxIdx)]]

\* Column.Between
ColumnBetween(st, col, min, max) ==
    LET minIdx == Len(st.Params)
        st1 == [st EXCEPT !.Params = Append(@, min)]
        maxIdx == Len(st1.Params)
        st2 == [st1 EXCEPT !.Params = Append(@, max)]
    IN  [st |-> st2,
         expr |-> [k |-> "between", not |-> FALSE,
                   left |-> Path(CurrentAlias(st2), col),
                   start |-> Param(minIdx), end |-> Param(maxIdx)]]

RECURSIVE InLoop(_, _, _)
\* the loop of Column.In over values: <<Params, exprs>> afterwards
InLoop(params, values, exprs) ==
    IF values = <<>> THEN [params |-> params, exprs |-> exprs]
    ELSE InLoop(Append(params, Head(values)), Tail(values),
                Append(exprs, Param(Len(params))))

\* Column.In
ColumnIn(st, col, values) ==
    LET l == InLoop(st.Params, values, <<>>)
        st1 == [st EXCEPT !.Params = l.params]
    IN  [st |-> st1,
         expr |-> [k |-> "in", not |-> FALSE,
                   left |-> Path(CurrentAlias(st1), col),
                   right |-> l.exprs]]

\* Column.IsNull / Column.IsNotNull
ColumnIsNull(st, col, not) ==
    [st |-> st, expr |-> [k |-> "isnull", not |-> not, left |-> Path(CurrentAlias(st), col)]]

\* query.Not without the test for an operand that is parenthesized already
NotWrapAlways(inner) == UnaryExpr("NOT", ParenExpr(inner))

\* query.Not, after the inner option has run and left inner behind expr
NotWrap(inner) ==
    IF inner.k = "paren" THEN UnaryExpr("NOT", inner)
    ELSE UnaryExpr("NOT", ParenExpr(inner))

\* the turn of the loop without the ParenExpr around the combination
LogicalCombineBare(op, left, right) == BinaryExpr(op, left, right)

\* query.logicalOp, one turn of its loop: left and the freshly built right
LogicalCombine(op, left, right) == ParenExpr(BinaryExpr(op, left, right))

RECURSIVE CallExprOption(_, _, _)
RECURSIVE logicalLoop(_, _, _, _, _)

\* query.logicalOp, the loop from index i on (1-based here)
logicalLoop(st, op, opts, i, left) ==
    IF i > Len(opts) THEN [st |-> st, expr |-> left]
    ELSE LET r == CallExprOption(st, opts[i], Nil)
         IN  logicalLoop(r.st, op, opts, i + 1, LogicalCombine(op, left, r.expr))

\* query.logicalOp (And, Or)
logicalOp(st, op, opts, expr) ==
    IF Len(opts) = 0 THEN [st |-> st, expr |-> expr]
    ELSE LET first == CallExprOption(st, opts[1], Nil)
         IN  logicalLoop(first.st, op, opts, 2, first.expr)

\* query.Not
Not(st, opt, expr) ==
    LET r == CallExprOption(st, opt, expr)
    IN  [st |-> r.st, expr |-> NotWrap(r.expr)]

\* the call opt(s, &expr) of an ExprOption
CallExprOption(st, opt, expr) ==
    CASE opt.k = "Op" -> ColumnOp(st, opt.col, opt.op, opt.value)
      [] opt.k = "Between" -> ColumnBetween(st, opt.col, opt.min, opt.max)
      [] opt.k = "In" -> ColumnIn(st, opt.col, opt.values)
      [] opt.k = "IsNull" -> ColumnIsNull(st, opt.col, opt.not)
      [] opt.k = "logicalOp" -> logicalOp(st, opt.op, opt.opts, expr)
      [] opt.k = "Not" -> Not(st, opt.opt, expr)

\* ExprOption.Apply handing the option the WHERE expression itself, which the
\* option overwrites
ExprOptionApplyOverwrite(st, query, opt) ==
    LET where0 == IF query.where = Nil THEN [k |-> "where", expr |-> Nil] ELSE query.where
        r == CallExprOption(st, opt, where0.expr)
    IN  [st |-> r.st, q |-> [query EXCEPT !.where = [where0 EXCEPT !.expr = r.expr]],
         expr |-> r.expr]

\* ExprOption.Apply: build the expression, AND it onto the WHERE clause
ExprOptionApply(st, query, opt) ==
    LET where0 == IF query.where = Nil THEN [k |-> "where", expr |-> Nil] ELSE query.where
        r == CallExprOption(st, opt, Nil)
        where1 == IF where0.expr = Nil
                  THEN [where0 EXCEPT !.expr = r.expr]
                  ELSE [where0 EXCEPT !.expr = BinaryExpr("AND", where0.expr, r.expr)]
    IN  [st |-> r.st, q |-> [query EXCEPT !.where = where1], expr |-> r.expr]

(***************************************************************************)
(* Query options: ORDER BY, LIMIT, joins.                                  *)
(***************************************************************************)
\* query.OrderBy
OrderBy(st, query, col, dir) ==
    LET orderBy0 == IF query.orderBy = Nil THEN [k |-> "orderby", items |-> <<>>]
                    ELSE query.orderBy
        item == [expr |-> Path(CurrentAlias(st), col), dir |-> dir]
    IN  [query EXCEPT !.orderBy = [orderBy0 EXCEPT !.items = Append(@, item)]]

\* query.Limit; fmt.Sprintf("%d", count) is the literal's text
Limit(query, count) ==
    [query EXCEPT !.limit = [k |-> "limit", count |-> ToString(count)]]

\* query.join with the previous source as the right child of the new node
joinRightNested(config) ==
    [k |-> "join",
     left |-> TableName(config.TargetTable, config.TargetAlias),
     op |-> config.JoinType,
     right |-> config.Source,
     cond |-> BinaryExpr("=",
                         Path(config.BaseTable, config.Keys.From),
                         Path(config.TargetAlias, config.Keys.To))]

\* query.join
join(config) ==
    [k |-> "join",
     left |-> config.Source,
     op |-> config.JoinType,
     right |-> TableName(config.TargetTable, config.TargetAlias),
     cond |-> BinaryExpr("=",
                         Path(config.BaseTable, config.Keys.From),
                         Path(config.TargetAlias, config.Keys.To))]

\* query.joinThrough
joinThrough(config) ==
    LET junctionJoin == join([Source |-> config.Source,
                              BaseTable |-> config.BaseTable,
                              TargetTable |-> config.JunctionTable,
                              TargetAlias |-> config.JunctionAlias,
                              Keys |-> config.BaseToJunction,
                              JoinType |-> config.JoinType])
    IN  join([Source |-> junctionJoin,
              BaseTable |-> config.JunctionAlias,
              TargetTable |-> config.TargetTable,
              TargetAlias |-> config.TargetAlias,
              Keys |-> config.JunctionToTarget,
              JoinType |-> config.JoinType])

\* query.findLastJoin(source) # nil
HasLastJoin(source) == source.k = "join"

RECURSIVE SetLastJoinOpLeftmost(_, _)
\* query.findLastJoin walking the Left children: the join found is the oldest
SetLastJoinOpLeftmost(source, op) ==
    IF source.k = "join"
    THEN IF source.left.k = "join"
         THEN [source EXCEPT !.left = SetLastJoinOpLeftmost(source.left, op)]
         ELSE [source EXCEPT !.op = op]
    ELSE source

RECURSIVE SetLastJoinOp(_, _)
\* query.findLastJoin followed by the assignment join.Op = op: the join found is
\* the last one of the chain of Right children that are joins
SetLastJoinOp(source, op) ==
    IF source.k = "join"
    THEN IF HasLastJoin(source.right)
         THEN [source EXCEPT !.right = SetLastJoinOp(source.right, op)]
         ELSE [source EXCEPT !.op = op]
    ELSE source

\* query.WithInnerJoinOption
WithInnerJoinOption(query) ==
    IF HasLastJoin(query.from) THEN [query EXCEPT !.from = SetLastJoinOp(@, "INNER JOIN")]
    ELSE query

\* query.DirectJoin passing ast.LeftOuterJoin to join whatever joinType it is given
DirectJoinLeftOuter(st, query, relationshipName, targetTable, keys, joinType) ==
    LET baseAlias == CurrentAlias(st)
        w == WithRelationshipEnter(st, relationshipName)
    IN  [st |-> w.st,
         q |-> [query EXCEPT !.from = join([Source |-> query.from,
                                            BaseTable |-> baseAlias,
                                            TargetTable |-> targetTable,
                                            TargetAlias |-> w.alias,
                                            Keys |-> keys,
                                            JoinType |-> "LEFT OUTER JOIN"])],
         basePath |-> w.basePath, alias |-> w.alias, baseAlias |-> baseAlias]

\* query.DirectJoin up to the loop over its nested options
DirectJoin(st, query, relationshipName, targetTable, keys, joinType) ==
    LET baseAlias == CurrentAlias(st)
        w == WithRelationshipEnter(st, relationshipName)
    IN  [st |-> w.st,
         q |-> [query EXCEPT !.from = join([Source |-> query.from,
                                            BaseTable |-> baseAlias,
                                            TargetTable |-> targetTable,
                                            TargetAlias |-> w.alias,
                                            Keys |-> keys,
                                            JoinType |-> joinType])],
         basePath |-> w.basePath, alias |-> w.alias, baseAlias |-> baseAlias]

\* query.JunctionJoin up to the loop over its nested options
JunctionJoin(st, query, relationshipName, junctionTable, baseToJunction, targetTable, junctionToTarget, joinType) ==
    LET baseAlias == CurrentAlias(st)
        j == RegisterJunction(st, junctionTable)
        w == WithRelationshipEnter(j.st, relationshipName)
    IN  [st |-> w.st,
         q |-> [query EXCEPT !.from = joinThrough([Source |-> query.from,
                                                   BaseTable |-> baseAlias,
                                                   JunctionTable |-> junctionTable,
                                                   JunctionAlias |-> j.alias,
                                                   TargetTable |-> targetTable,
                                                   TargetAlias |-> w.alias,
                                                   BaseToJunction |-> baseToJunction,
                                                   JunctionToTarget |-> junctionToTarget,
                                                   JoinType |-> joinType])],
         basePath |-> w.basePath, alias |-> w.alias, baseAlias |-> baseAlias]

\* query.Select taking the parameter list from a package-level State that the
\* calls share, not from a State of its own
SelectStartShared(tableName) ==
    [st |-> [Tables |-> {tableName}, Params |-> s[1].Params,
             RelationshipPath |-> <<tableName>>, SubqueryColumns |-> <<>>],
     q |-> [results |-> <<[k |-> "dotstar", expr |-> tableName]>>,
            from |-> TableName(tableName, ""),
            where |-> Nil, orderBy |-> Nil, limit |-> Nil]]

\* query.Select up to the loop over its options
SelectStart(tableName) ==
    [st |-> [Tables |-> {tableName}, Params |-> <<>>,
             RelationshipPath |-> <<tableName>>, SubqueryColumns |-> <<>>],
     q |-> [results |-> <<[k |-> "dotstar", expr |-> tableName]>>,
            from |-> TableName(tableName, ""),
            where |-> Nil, orderBy |-> Nil, limit |-> Nil]]

RECURSIVE AppendSubqueryColumns(_, _)
\* query.Select, the loop that adds the pending subquery columns to the result items
AppendSubqueryColumns(results, cols) ==
    IF cols = <<>> THEN results
    ELSE AppendSubqueryColumns(
             Append(results, [k |-> "alias", expr |-> Head(cols).Subquery, as |-> Head(cols).Alias]),
             Tail(cols))

\* query.Select after the loop over its options: the query handed to q.SQL()
\* and the parameter list
SelectFinish(st, query) ==
    [query |-> [query EXCEPT !.results = AppendSubqueryColumns(@, st.SubqueryColumns)],
     params |-> st.Params]

(***************************************************************************)
(* Subqueries: query/subquery.go and the composers WithOne, WithMany,      *)
(* WithManyThrough and WhereExists. A composer builds a State and a query  *)
(* of its own, applies its options to them, and hands the parent State the *)
(* parameters back.                                                        *)
(***************************************************************************)
Star == [k |-> "star"]

IntLiteral(value) == [k |-> "int", value |-> value]

ExprSelectItem(e) == [k |-> "item", expr |-> e]

DotStar(tableName) == [k |-> "dotstar", expr |-> tableName]

Where(e) == [k |-> "where", expr |-> e]

\* ast.Query{Query: ast.Select{...}} as the options see it
SubQuery(results, from, where) ==
    [results |-> results, from |-> from, where |-> where, orderBy |-> Nil, limit |-> Nil]

\* ast.Select inside a subquery expression
SelectNode(as, results, from, where) ==
    [k |-> "select", as |-> as, results |-> results, from |-> from, where |-> where]

\* State.NewSubqueryState: a State of the target table that starts from the
\* parameters of the parent
NewSubqueryState(st, targetTable) ==
    [Tables |-> {targetTable}, Params |-> st.Params,
     RelationshipPath |-> <<targetTable>>, SubqueryColumns |-> <<>>]

\* query.newSubquery
newSubquery(parentState, targetTable, keys) ==
    [baseAlias |-> CurrentAlias(parentState),
     targetTable |-> targetTable,
     keys |-> keys,
     subState |-> NewSubqueryState(parentState, targetTable)]

\* subquery.buildJunctionCorrelation
buildJunctionCorrelation(sq, junctionTable) ==
    BinaryExpr("=", Path(junctionTable, sq.keys.To), Path(sq.baseAlias, sq.keys.From))

\* subquery.buildJunctionJoin
buildJunctionJoin(sq, junctionTable, junctionKeys) ==
    [k |-> "join",
     left |-> TableName(sq.targetTable, ""),
     op |-> "INNER JOIN",
     right |-> TableName(junctionTable, ""),
     cond |-> BinaryExpr("=", Path(sq.targetTable, junctionKeys.To),
                         Path(junctionTable, junctionKeys.From))]

\* subquery.buildBasicSubquery with the two keys of the pair exchanged
buildBasicSubquerySwapped(sq, selectItems) ==
    SubQuery(selectItems, TableName(sq.targetTable, ""),
             Where(BinaryExpr("=", Path(sq.targetTable, sq.keys.From),
                              Path(sq.baseAlias, sq.keys.To))))

\* subquery.buildBasicSubquery
buildBasicSubquery(sq, selectItems) ==
    SubQuery(selectItems, TableName(sq.targetTable, ""),
             Where(BinaryExpr("=", Path(sq.targetTable, sq.keys.To),
                              Path(sq.baseAlias, sq.keys.From))))

\* subquery.applyOptions leaving the parent's parameter list as it was
applyOptionsKeepsParent(parentState, subState) == parentState

\* subquery.applyOptions after its loop: the parent takes the parameter list of
\* the subquery State
applyOptions(parentState, subState) ==
    [parentState EXCEPT !.Params = subState.Params]

\* subquery.addSubqueryColumn putting the new column first
addSubqueryColumnFirst(st, relationshipName, subqueryExpr) ==
    [st EXCEPT !.SubqueryColumns =
                   <<[Alias |-> relationshipName, Subquery |-> subqueryExpr]>> \o @]

\* subquery.addSubqueryColumn
addSubqueryColumn(st, relationshipName, subqueryExpr) ==
    [st EXCEPT !.SubqueryColumns =
                   Append(@, [Alias |-> relationshipName, Subquery |-> subqueryExpr])]

\* query.WithOne, query.WithMany up to applyOptions: the query the options are
\* applied to
WithOneEnter(sq) == buildBasicSubquery(sq, <<Star>>)

\* query.WithOne after applyOptions: the scalar subquery
WithOneReturn(subQuery) ==
    [k |-> "scalar",
     query |-> SelectNode("struct", subQuery.results, subQuery.from, subQuery.where)]

\* query.WithMany after applyOptions: the array subquery
WithManyReturn(subQuery, targetTable) ==
    [k |-> "array",
     query |-> SelectNode("struct", <<Star>>, TableName(targetTable, ""), subQuery.where)]

\* query.WithManyThrough up to applyOptions: the temporary query
WithManyThroughEnter(targetTable) == SubQuery(<<Star>>, TableName(targetTable, ""), Nil)

\* query.WithManyThrough after applyOptions: the array subquery over the join
\* of the target with the junction table
WithManyThroughReturn(sq, tempQuery, junctionTable, junctionKeys) ==
    LET additionalWhere == IF tempQuery.where # Nil THEN tempQuery.where.expr ELSE Nil
        correlation == buildJunctionCorrelation(sq, junctionTable)
    IN  [k |-> "array",
         query |-> SelectNode("struct", <<DotStar(sq.targetTable)>>,
                              buildJunctionJoin(sq, junctionTable, junctionKeys),
                              Where(IF additionalWhere # Nil
                                    THEN BinaryExpr("AND", correlation, additionalWhere)
                                    ELSE correlation))]

\* query.WhereExists up to applyOptions: the SELECT 1 query
WhereExistsEnter(sq, junctionTable, junctionKeys) ==
    IF junctionTable = ""
    THEN buildBasicSubquery(sq, <<ExprSelectItem(IntLiteral("1"))>>)
    ELSE SubQuery(<<ExprSelectItem(IntLiteral("1"))>>,
                  buildJunctionJoin(sq, junctionTable, junctionKeys),
                  Where(buildJunctionCorrelation(sq, junctionTable)))

\* query.WhereExists after applyOptions: the EXISTS expression
WhereExistsReturn(subQuery) == [k |-> "exists", query |-> subQuery]

\* ExprOption.Apply around the call of the option: the WHERE clause is created
\* when missing, the expression the option produced is ANDed onto it
ExprOptionApplyCombine(query, expr) ==
    LET where0 == IF query.where = Nil THEN Where(Nil) ELSE query.where
    IN  [query EXCEPT !.where =
            IF where0.expr = Nil THEN [where0 EXCEPT !.expr = expr]
            ELSE [where0 EXCEPT !.expr = BinaryExpr("AND", where0.expr, expr)]]

(***************************************************************************)
(* The generated packages: tables, columns and relationship accessors.     *)
(***************************************************************************)
TableNames == {"user", "post", "tag"}

\* the column the predicates of the model are built on, per table
PredColumn(table) ==
    CASE table = "user" -> "name"
      [] table = "post" -> "title"
      [] table = "tag" -> "name"

\* post.Author, user.Posts (direct) and post.Tags, tag.Posts (through post_tag)
Accessors ==
    { [on |-> "post", name |-> "author", junction |-> "", target |-> "user",
       keys |-> [From |-> "user_id", To |-> "id"],
       junctionKeys |-> [From |-> "", To |-> ""], joinType |-> "INNER JOIN"],
      [on |-> "user", name |-> "posts", junction |-> "", target |-> "post",
       keys |-> [From |-> "id", To |-> "user_id"],
       junctionKeys |-> [From |-> "", To |-> ""], joinType |-> "LEFT OUTER JOIN"],
      [on |-> "post", name |-> "tags", junction |-> "post_tag", target |-> "tag",
       keys |-> [From |-> "id", To |-> "post_id"],
       junctionKeys |-> [From |-> "tag_id", To |-> "id"], joinType |-> "LEFT OUTER JOIN"],
      [on |-> "tag", name |-> "posts", junction |-> "post_tag", target |-> "post",
       keys |-> [From |-> "id", To |-> "tag_id"],
       junctionKeys |-> [From |-> "post_id", To |-> "id"], joinType |-> "LEFT OUTER JOIN"] }

\* the generated subquery methods: user.WithPosts, post.WithAuthor,
\* post.WithTags and the filters user.WherePosts, post.WhereAuthor, post.WhereTags
Loaders ==
    { [on |-> "user", name |-> "posts", shape |-> "many", target |-> "post",
       keys |-> [From |-> "id", To |-> "user_id"],
       junction |-> "", junctionKeys |-> [From |-> "", To |-> ""]],
      [on |-> "post", name |-> "author", shape |-> "one", target |-> "user",
       keys |-> [From |-> "user_id", To |-> "id"],
       junction |-> "", junctionKeys |-> [From |-> "", To |-> ""]],
      [on |-> "post", name |-> "tags", shape |-> "through", target |-> "tag",
       keys |-> [From |-> "id", To |-> "post_id"],
       junction |-> "post_tag", junctionKeys |-> [From |-> "tag_id", To |-> "id"]],
      [on |-> "user", name |-> "posts", shape |-> "exists", target |-> "post",
       keys |-> [From |-> "id", To |-> "user_id"],
       junction |-> "", junctionKeys |-> [From |-> "", To |-> ""]],
      [on |-> "post", name |-> "author", shape |-> "exists", target |-> "user",
       keys |-> [From |-> "user_id", To |-> "id"],
       junction |-> "", junctionKeys |-> [From |-> "", To |-> ""]],
      [on |-> "post", name |-> "tags", shape |-> "exists", target |-> "tag",
       keys |-> [From |-> "id", To |-> "post_id"],
       junction |-> "post_tag", junctionKeys |-> [From |-> "tag_id", To |-> "id"]] }

(***************************************************************************)
(* The inputs of the model: the options a caller passes.                   *)
(***************************************************************************)
Values == {"a", "b"}

SeqsUpTo(S, n) == UNION {[1..m -> S] : m \in 0..n}

Eq(table, v) == OpOption(PredColumn(table), "=", v)

\* the predicates of one column
Leaves(table) ==
    {Eq(table, v) : v \in Values}
      \cup {BetweenOption(PredColumn(table), "a", "b"),
            InOption(PredColumn(table), <<"b", "a">>),
            InOption(PredColumn(table), <<>>),
            IsNullOption(PredColumn(table), FALSE)}

\* the sub-expressions And/Or are given
ArgOpts(table) ==
    {Eq(table, "a"), Eq(table, "b"), BetweenOption(PredColumn(table), "b", "a")}

Logicals(table) ==
    {LogicalOption(op, opts) : op \in {"AND", "OR"}, opts \in SeqsUpTo(ArgOpts(table), MaxArgs)}

\* And/Or with an And/Or among the sub-expressions
NestedLogicals(table) ==
    LET inner(op) == LogicalOption(op, <<Eq(table, "a"), Eq(table, "b")>>)
    IN  {LogicalOption(op1, <<inner(op2), Eq(table, "b")>>) : op1, op2 \in {"AND", "OR"}}
          \cup {LogicalOption(op1, <<Eq(table, "b"), inner(op2)>>) : op1, op2 \in {"AND", "OR"}}

Combinators(table) ==
    LET base == Leaves(table) \cup Logicals(table) \cup NestedLogicals(table)
    IN  Logicals(table) \cup NestedLogicals(table)
          \cup {NotOption(x) : x \in base}
          \cup {NotOption(NotOption(x)) : x \in ArgOpts(table)}

\* the expression options of the runs that follow whole Select calls
ExprOpts(table) ==
    Leaves(table)
      \cup {LogicalOption("OR", <<Eq(table, "a"), Eq(table, "b")>>),
            LogicalOption("AND", <<>>),
            NotOption(Eq(table, "a"))}

\* the expression options of the runs that compose subqueries
SubExprOpts(table) == {Eq(table, v) : v \in Values}

\* the expression options of two calls side by side
PairExprOpts(table) == {Eq(table, v) : v \in Values}

(***************************************************************************)
(* The state of the Select calls.                                          *)
(***************************************************************************)
ZeroQuery == [results |-> <<>>, from |-> Nil, where |-> Nil, orderBy |-> Nil, limit |-> Nil]

ZeroHist == [root |-> "", trace |-> <<>>, n |-> 0, opt |-> Nil, expr |-> Nil, before |-> <<>>]

InitCalls(ids) ==
    /\ pc = [c \in ids |-> "idle"]
    /\ s = [c \in ids |-> ZeroState]
    /\ q = [c \in ids |-> ZeroQuery]
    /\ frames = [c \in ids |-> <<>>]
    /\ hist = [c \in ids |-> ZeroHist]
    /\ ret = [c \in ids |-> Nil]

\* no generator run
NoRuns == gen = <<>>

Init == InitCalls({1}) /\ NoRuns

InitPair == InitCalls({1, 2}) /\ NoRuns

Calls == DOMAIN pc

\* the table whose options are applied now: the root, or the target of the
\* innermost open accessor
CurrentTable(c) ==
    IF frames[c] = <<>> THEN hist[c].root ELSE frames[c][Len(frames[c])].table

Record(c, event) ==
    [hist[c] EXCEPT !.trace = Append(@, event), !.n = @ + 1]

(***************************************************************************)
(* The steps of a Select call.                                             *)
(***************************************************************************)
\* query.Select[T] is called: a fresh State and a bare SELECT
SelectBegin(c, tableName) ==
    /\ pc[c] \in {"idle", "done", "panicked"}
    /\ LET r == SelectStart(tableName)
       IN  /\ s' = [s EXCEPT ![c] = r.st]
           /\ q' = [q EXCEPT ![c] = r.q]
    /\ pc' = [pc EXCEPT ![c] = "running"]
    /\ frames' = [frames EXCEPT ![c] = <<>>]
    /\ hist' = [hist EXCEPT ![c] = [ZeroHist EXCEPT !.root = tableName]]
    /\ ret' = [ret EXCEPT ![c] = Nil]
    /\ UNCHANGED gen

\* opt.Apply(s, q) of an ExprOption
ApplyExprOption(c, max, opt) ==
    /\ pc[c] = "running"
    /\ hist[c].n < max
    /\ LET r == ExprOptionApply(s[c], q[c], opt)
       IN  /\ s' = [s EXCEPT ![c] = r.st]
           /\ q' = [q EXCEPT ![c] = r.q]
           /\ hist' = [hist EXCEPT ![c] = [Record(c, opt) EXCEPT
                          !.opt = opt, !.expr = r.expr, !.before = s[c].Params]]
    /\ UNCHANGED <<gen, pc, frames, ret>>

\* opt.Apply(s, q) of an OrderBy option
ApplyOrderBy(c, max, dir) ==
    /\ pc[c] = "running"
    /\ hist[c].n < max
    /\ LET col == PredColumn(CurrentTable(c))
       IN  /\ q' = [q EXCEPT ![c] = OrderBy(s[c], q[c], col, dir)]
           /\ hist' = [hist EXCEPT ![c] = Record(c, [k |-> "OrderBy", col |-> col, dir |-> dir])]
    /\ UNCHANGED <<gen, pc, s, frames, ret>>

\* opt.Apply(s, q) of a Limit option
ApplyLimit(c, max, count) ==
    /\ pc[c] = "running"
    /\ hist[c].n < max
    /\ q' = [q EXCEPT ![c] = Limit(q[c], count)]
    /\ hist' = [hist EXCEPT ![c] = Record(c, [k |-> "Limit", count |-> count])]
    /\ UNCHANGED <<gen, pc, s, frames, ret>>

\* opt.Apply(s, q) of a WithInnerJoin option
ApplyWithInnerJoin(c, max) ==
    /\ pc[c] = "running"
    /\ hist[c].n < max
    /\ q' = [q EXCEPT ![c] = WithInnerJoinOption(q[c])]
    /\ hist' = [hist EXCEPT ![c] = Record(c, [k |-> "WithInnerJoin"])]
    /\ UNCHANGED <<gen, pc, s, frames, ret>>

\* opt.Apply(s, q) of a relationship accessor, up to its first nested option
ApplyAccessor(c, max, a) ==
    /\ pc[c] = "running"
    /\ hist[c].n < max
    /\ a.on = CurrentTable(c)
    /\ LET r == IF a.junction = ""
                THEN DirectJoin(s[c], q[c], a.name, a.target, a.keys, a.joinType)
                ELSE JunctionJoin(s[c], q[c], a.name, a.junction, a.keys,
                                  a.target, a.junctionKeys, a.joinType)
       IN  /\ s' = [s EXCEPT ![c] = r.st]
           /\ q' = [q EXCEPT ![c] = r.q]
           /\ frames' = [frames EXCEPT ![c] =
                            Append(@, [kind |-> "rel",
                                       basePath |-> r.basePath, alias |-> r.alias,
                                       baseAlias |-> r.baseAlias, table |-> a.target,
                                       name |-> a.name, junction |-> a.junction])]
    /\ hist' = [hist EXCEPT ![c] = Record(c, [k |-> "Accessor", on |-> a.on, name |-> a.name])]
    /\ UNCHANGED <<gen, pc, ret>>

\* the nested options of the innermost accessor are all applied: fn returns and
\* WithRelationship restores the path
AccessorReturn(c) ==
    /\ pc[c] = "running"
    /\ frames[c] # <<>>
    /\ frames[c][Len(frames[c])].kind = "rel"
    /\ LET f == frames[c][Len(frames[c])]
       IN  s' = [s EXCEPT ![c] = WithRelationshipReturn(s[c], f.basePath)]
    /\ frames' = [frames EXCEPT ![c] = SubSeq(@, 1, Len(@) - 1)]
    /\ hist' = [hist EXCEPT ![c] = [@ EXCEPT !.trace = Append(@, [k |-> "End"])]]
    /\ UNCHANGED <<gen, pc, q, ret>>

RECURSIVE UnwindAll(_, _)
\* a panic leaves through every open WithRelationship, innermost first
UnwindAll(st, open) ==
    IF open = <<>> THEN st
    ELSE UnwindAll(WithRelationshipUnwind(st, open[Len(open)].basePath),
                   SubSeq(open, 1, Len(open) - 1))

\* an option supplied by the caller (types.QueryOption is any function) panics
\* when applied; nothing on the way out of Select recovers
OptionPanics(c, max) ==
    /\ pc[c] = "running"
    /\ hist[c].n < max
    /\ s' = [s EXCEPT ![c] = UnwindAll(s[c], frames[c])]
    /\ pc' = [pc EXCEPT ![c] = "panicked"]
    /\ frames' = [frames EXCEPT ![c] = <<>>]
    /\ hist' = [hist EXCEPT ![c] = Record(c, [k |-> "Panic", depth |-> Len(frames[c])])]
    /\ UNCHANGED <<gen, q, ret>>

\* the composer of a subquery is entered: from here on the options are applied
\* to the State and the query of the subquery; the parent's wait in the frame
EnterSubquery(c, l, sq, subQuery) ==
        /\ s' = [s EXCEPT ![c] = sq.subState]
        /\ q' = [q EXCEPT ![c] = subQuery]
        /\ frames' = [frames EXCEPT ![c] =
                         Append(@, [kind |-> "sub", shape |-> l.shape, name |-> l.name,
                                    table |-> l.target, alias |-> l.target,
                                    baseAlias |-> sq.baseAlias, sq |-> sq,
                                    junction |-> l.junction, junctionKeys |-> l.junctionKeys,
                                    parentState |-> s[c], parentQuery |-> q[c],
                                    at |-> Len(hist[c].trace) + 1])]
        /\ hist' = [hist EXCEPT ![c] = Record(c, [k |-> "Loader", shape |-> l.shape,
                                                  on |-> l.on, name |-> l.name])]

\* opt.Apply(s, q) of WithOne, WithMany or WithManyThrough, up to the first
\* nested option
ApplyLoader(c, max, l) ==
    /\ pc[c] = "running"
    /\ hist[c].n < max
    /\ l.on = CurrentTable(c)
    /\ l.shape \in {"one", "many", "through"}
    /\ LET sq == newSubquery(s[c], l.target, l.keys)
       IN  EnterSubquery(c, l, sq, IF l.shape = "through"
                                   THEN WithManyThroughEnter(l.target)
                                   ELSE WithOneEnter(sq))
    /\ UNCHANGED <<gen, pc, ret>>

\* opt.Apply(s, q) of WhereExists, up to the first nested option
ApplyWhereExists(c, max, l) ==
    /\ pc[c] = "running"
    /\ hist[c].n < max
    /\ l.on = CurrentTable(c)
    /\ l.shape = "exists"
    /\ LET sq == newSubquery(s[c], l.target, l.keys)
       IN  EnterSubquery(c, l, sq, WhereExistsEnter(sq, l.junction, l.junctionKeys))
    /\ UNCHANGED <<gen, pc, ret>>

\* the nested options of the innermost composer are all applied: the parent
\* takes the parameters, and the column (or the EXISTS predicate) built from the
\* subquery
SubqueryReturn(c) ==
    /\ pc[c] = "running"
    /\ frames[c] # <<>>
    /\ frames[c][Len(frames[c])].kind = "sub"
    /\ LET f == frames[c][Len(frames[c])]
           parent == applyOptions(f.parentState, s[c])
           expr == CASE f.shape = "one" -> WithOneReturn(q[c])
                     [] f.shape = "many" -> WithManyReturn(q[c], f.table)
                     [] f.shape = "through" ->
                            WithManyThroughReturn(f.sq, q[c], f.junction, f.junctionKeys)
                     [] f.shape = "exists" -> WhereExistsReturn(q[c])
       IN  /\ s' = [s EXCEPT ![c] = IF f.shape = "exists" THEN parent
                                     ELSE addSubqueryColumn(parent, f.name, expr)]
           /\ q' = [q EXCEPT ![c] = IF f.shape = "exists"
                                     THEN ExprOptionApplyCombine(f.parentQuery, expr)
                                     ELSE f.parentQuery]
           /\ hist' = [hist EXCEPT ![c] =
                          [@ EXCEPT !.trace = Append(@, [k |-> "EndSub"]),
                                    !.opt = [k |-> "Loader", shape |-> f.shape, at |-> f.at],
                                    !.expr = expr,
                                    !.before = f.parentState.Params]]
    /\ frames' = [frames EXCEPT ![c] = SubSeq(@, 1, Len(@) - 1)]
    /\ UNCHANGED <<gen, pc, ret>>

\* every option of Select is applied: Select returns q.SQL() and s.Params
SelectReturn(c) ==
    /\ pc[c] = "running"
    /\ frames[c] = <<>>
    /\ LET r == SelectFinish(s[c], q[c])
       IN  /\ ret' = [ret EXCEPT ![c] = [k |-> "ret", query |-> r.query, params |-> r.params]]
           /\ q' = [q EXCEPT ![c] = r.query]
    /\ pc' = [pc EXCEPT ![c] = "done"]
    /\ UNCHANGED <<gen, s, frames, hist>>

Next ==
    \E c \in Calls :
        \/ \E t \in TableNames : SelectBegin(c, t)
        \/ /\ pc[c] = "running"
           /\ \E opt \in ExprOpts(CurrentTable(c)) : ApplyExprOption(c, MaxOpts, opt)
        \/ ApplyOrderBy(c, MaxOpts, "DESC")
        \/ ApplyLimit(c, MaxOpts, 5)
        \/ ApplyWithInnerJoin(c, MaxOpts)
        \/ \E a \in Accessors : ApplyAccessor(c, MaxOpts, a)
        \/ AccessorReturn(c)
        \/ OptionPanics(c, MaxOpts)
        \/ SelectReturn(c)

\* one Select call at a time, any number of them one after the other
Spec == Init /\ [][Next]_vars

\* the last expression option applied was an And, Or or Not
CombinatorApplied(c) == hist[c].opt.k \in {"logicalOp", "Not"}

NextExpr ==
    \E c \in Calls :
        \/ \E t \in TableNames : SelectBegin(c, t)
        \/ /\ pc[c] = "running"
           /\ ~CombinatorApplied(c)
           /\ \E opt \in ArgOpts(CurrentTable(c)) : ApplyExprOption(c, MaxPrior, opt)
        \/ /\ pc[c] = "running"
           /\ ~CombinatorApplied(c)
           /\ \E opt \in Combinators(CurrentTable(c)) : ApplyExprOption(c, MaxPrior + 1, opt)
        \/ SelectReturn(c)

\* one Select call given at most MaxPrior predicates and then one And, Or or Not
SpecExpr == Init /\ [][NextExpr]_vars

\* the root tables of two calls side by side
PairTableNames == {"post", "user"}

NextPair ==
    \E c \in Calls :
        \/ \E t \in PairTableNames : SelectBegin(c, t)
        \/ /\ pc[c] = "running"
           /\ \E opt \in PairExprOpts(CurrentTable(c)) : ApplyExprOption(c, MaxOptsPair, opt)
        \/ \E a \in Accessors : ApplyAccessor(c, MaxOptsPair, a)
        \/ AccessorReturn(c)
        \/ SelectReturn(c)

\* two Select calls whose steps interleave, each slot running call after call
SpecPair == InitPair /\ [][NextPair]_vars

NextSub ==
    \E c \in Calls :
        \/ \E t \in TableNames : SelectBegin(c, t)
        \/ /\ pc[c] = "running"
           /\ \E opt \in SubExprOpts(CurrentTable(c)) : ApplyExprOption(c, MaxOptsSub, opt)
        \/ \E l \in Loaders : ApplyLoader(c, MaxOptsSub, l)
        \/ \E l \in Loaders : ApplyWhereExists(c, MaxOptsSub, l)
        \/ SubqueryReturn(c)
        \/ \E a \in Accessors : ApplyAccessor(c, MaxOptsSub, a)
        \/ AccessorReturn(c)
        \/ SelectReturn(c)

\* one Select call at a time whose options compose subqueries, at any depth
SpecSub == Init /\ [][NextSub]_vars

(***************************************************************************)
(* Readings of the built trees and of the options given, for the           *)
(* properties below.                                                       *)
(***************************************************************************)
ExprOptionKinds == {"Op", "Between", "In", "IsNull", "logicalOp", "Not"}

IsExprOption(event) == event.k \in ExprOptionKinds

RECURSIVE ParamNamesIn(_)
RECURSIVE ParamNamesInAll(_)
\* the placeholder names of an expression, left to right
ParamNamesIn(e) ==
    CASE e.k = "param" -> <<e.name>>
      [] e.k = "binary" -> ParamNamesIn(e.left) \o ParamNamesIn(e.right)
      [] e.k = "paren" -> ParamNamesIn(e.expr)
      [] e.k = "unary" -> ParamNamesIn(e.expr)
      [] e.k = "between" -> ParamNamesIn(e.left) \o ParamNamesIn(e.start) \o ParamNamesIn(e.end)
      [] e.k = "in" -> ParamNamesIn(e.left) \o ParamNamesInAll(e.right)
      [] e.k = "where" -> ParamNamesIn(e.expr)
      [] OTHER -> <<>>

ParamNamesInAll(es) ==
    IF es = <<>> THEN <<>> ELSE ParamNamesIn(Head(es)) \o ParamNamesInAll(Tail(es))

RECURSIVE FromParamNames(_)
\* the placeholder names of the join conditions of a FROM source
FromParamNames(source) ==
    IF source.k = "join"
    THEN FromParamNames(source.left) \o FromParamNames(source.right) \o ParamNamesIn(source.cond)
    ELSE <<>>

\* the placeholder names of a whole query tree
QueryParamNames(query) == FromParamNames(query.from) \o ParamNamesIn(query.where)

RECURSIVE ValuesOf(_)
RECURSIVE ValuesOfAll(_)
\* the literal values an option was given, in argument order, depth-first
ValuesOf(opt) ==
    CASE opt.k = "Op" -> <<opt.value>>
      [] opt.k = "Between" -> <<opt.min, opt.max>>
      [] opt.k = "In" -> opt.values
      [] opt.k = "logicalOp" -> ValuesOfAll(opt.opts)
      [] opt.k = "Not" -> ValuesOf(opt.opt)
      [] OTHER -> <<>>

ValuesOfAll(opts) ==
    IF opts = <<>> THEN <<>> ELSE ValuesOf(Head(opts)) \o ValuesOfAll(Tail(opts))

\* the index a placeholder name stands for, -1 when it is no p<i> of the list
IndexOfName(name, params) ==
    IF \E i \in 0..Len(params) : ParamName(i) = name
    THEN CHOOSE i \in 0..Len(params) : ParamName(i) = name
    ELSE -1

\* the values the placeholders of e are bound to in params
BoundValues(e, params) ==
    LET names == ParamNamesIn(e)
    IN  [j \in 1..Len(names) |->
            LET i == IndexOfName(names[j], params)
            IN  IF i + 1 \in DOMAIN params THEN params[i + 1] ELSE "unbound"]

\* names is p<from>, p<from+1>, ... without gap or repetition
Consecutive(names, from) ==
    \A j \in 1..Len(names) : names[j] = ParamName(from + j - 1)

RECURSIVE BuildsNil(_)
\* the option leaves the expression it is given untouched (nil)
BuildsNil(opt) ==
    /\ opt.k = "logicalOp"
    /\ \/ Len(opt.opts) = 0
       \/ Len(opt.opts) = 1 /\ BuildsNil(opt.opts[1])

RECURSIVE BuildsParen(_)
\* the option yields a parenthesized expression
BuildsParen(opt) ==
    /\ opt.k = "logicalOp"
    /\ \/ Len(opt.opts) >= 2
       \/ Len(opt.opts) = 1 /\ BuildsParen(opt.opts[1])

RECURSIVE ShapeOf(_, _)
\* e is the kind of node the option stands for
ShapeOf(opt, e) ==
    CASE opt.k = "Op" ->
            /\ e.k = "binary" /\ e.op = opt.op
            /\ e.left.k = "path" /\ e.left.idents[2] = opt.col
            /\ e.right.k = "param"
      [] opt.k = "Between" ->
            /\ e.k = "between" /\ e.left.idents[2] = opt.col
            /\ e.start.k = "param" /\ e.end.k = "param"
      [] opt.k = "In" ->
            /\ e.k = "in" /\ e.left.idents[2] = opt.col
            /\ Len(e.right) = Len(opt.values)
      [] opt.k = "IsNull" -> e.k = "isnull" /\ e.left.idents[2] = opt.col /\ e.not = opt.not
      [] opt.k = "logicalOp" ->
            IF Len(opt.opts) = 0 THEN e = Nil
            ELSE IF Len(opt.opts) = 1 THEN ShapeOf(opt.opts[1], e)
            ELSE e.k = "paren" /\ e.expr.k = "binary" /\ e.expr.op = opt.op
      [] opt.k = "Not" -> e.k = "unary" /\ e.op = "NOT"
      [] OTHER -> FALSE

\* e is the expression of option opt: its kind of node, bound to its values in order
BuiltFrom(opt, e, params) ==
    /\ ShapeOf(opt, e)
    /\ BoundValues(e, params) = ValuesOf(opt)

RECURSIVE Conjuncts(_)
\* the operands of the chain of unparenthesized ANDs at the top of e, left to right
Conjuncts(e) ==
    IF e.k = "binary" /\ e.op = "AND" THEN Append(Conjuncts(e.left), e.right) ELSE <<e>>

RECURSIVE TopAnds(_)
\* the number of AND connectives of e outside parentheses
TopAnds(e) ==
    IF e.k = "binary" /\ e.op = "AND" THEN 1 + TopAnds(e.left) + TopAnds(e.right) ELSE 0

RECURSIVE Peel(_, _, _)
\* the operands of n nested parenthesized combinations by op down the left of e,
\* left to right; <<>> when e is no such chain
Peel(e, op, n) ==
    IF n = 0 THEN <<e>>
    ELSE IF e.k = "paren" /\ e.expr.k = "binary" /\ e.expr.op = op
         THEN LET front == Peel(e.expr.left, op, n - 1)
              IN  IF front = <<>> THEN <<>> ELSE Append(front, e.expr.right)
         ELSE <<>>

RECURSIVE Count(_, _)
RECURSIVE CountAll(_, _)
\* the number of nodes of kind kind in e
Count(e, kind) ==
    (IF e.k = kind THEN 1 ELSE 0)
      + CASE e.k = "binary" -> Count(e.left, kind) + Count(e.right, kind)
          [] e.k = "paren" -> Count(e.expr, kind)
          [] e.k = "unary" -> Count(e.expr, kind)
          [] OTHER -> 0

CountAll(es, kind) ==
    IF es = <<>> THEN 0 ELSE Count(Head(es), kind) + CountAll(Tail(es), kind)

RECURSIVE NotsIn(_)
RECURSIVE NotsInAll(_)
\* the number of Not calls in an option
NotsIn(opt) ==
    CASE opt.k = "Not" -> 1 + NotsIn(opt.opt)
      [] opt.k = "logicalOp" -> NotsInAll(opt.opts)
      [] OTHER -> 0

NotsInAll(opts) ==
    IF opts = <<>> THEN 0 ELSE NotsIn(Head(opts)) + NotsInAll(Tail(opts))

RECURSIVE FromMembers(_)
\* the names by which the members of a FROM source are referred to, in order
FromMembers(source) ==
    IF source.k = "join" THEN FromMembers(source.left) \o FromMembers(source.right)
    ELSE IF source.k = "table" THEN <<IF source.as = "" THEN source.name ELSE source.as>>
    ELSE <<>>

RECURSIVE Qualifiers(_)
\* the table qualifiers of the column paths of an expression
Qualifiers(e) ==
    CASE e.k = "path" -> {e.idents[1]}
      [] e.k = "binary" -> Qualifiers(e.left) \cup Qualifiers(e.right)
      [] e.k = "paren" -> Qualifiers(e.expr)
      [] e.k = "unary" -> Qualifiers(e.expr)
      [] e.k = "between" -> Qualifiers(e.left)
      [] e.k = "in" -> Qualifiers(e.left)
      [] e.k = "isnull" -> Qualifiers(e.left)
      [] OTHER -> {}

RECURSIVE JoinChain(_)
\* the join nodes of a FROM source down its left children, the oldest first
JoinChain(source) ==
    IF source.k = "join" THEN Append(JoinChain(source.left), source) ELSE <<>>

\* the accessor an Accessor event of the trace stands for
AccessorOf(event) == CHOOSE a \in Accessors : a.on = event.on /\ a.name = event.name

\* the accessor reads a foreign key of its own table (belongs-to)
BelongsTo(a) == a.junction = "" /\ a.keys.To = "id"

RECURSIVE TablesJoinedBy(_)
\* the tables the accessors of a trace join, in the order of the accessors
TablesJoinedBy(trace) ==
    IF trace = <<>> THEN <<>>
    ELSE (IF trace[1].k # "Accessor" THEN <<>>
          ELSE IF AccessorOf(trace[1]).junction = "" THEN <<AccessorOf(trace[1]).target>>
          ELSE <<AccessorOf(trace[1]).junction, AccessorOf(trace[1]).target>>)
         \o TablesJoinedBy(Tail(trace))

RECURSIVE DefaultKindsOf(_)
\* the join kinds the accessors of a trace ask for by default, in their order
DefaultKindsOf(trace) ==
    IF trace = <<>> THEN <<>>
    ELSE (IF trace[1].k # "Accessor" THEN <<>>
          ELSE IF BelongsTo(AccessorOf(trace[1])) THEN <<"INNER JOIN">>
          ELSE IF AccessorOf(trace[1]).junction = "" THEN <<"LEFT OUTER JOIN">>
          ELSE <<"LEFT OUTER JOIN", "LEFT OUTER JOIN">>)
         \o DefaultKindsOf(Tail(trace))

\* the events of a trace of kind kind
EventsOfKind(trace, kind) == {i \in DOMAIN trace : trace[i].k = kind}

RECURSIVE OwnEvents(_, _)
\* the events of a trace that are not nested in a subquery composer of the
\* trace (the event that enters a composer is its parent's own)
OwnEvents(trace, depth) ==
    IF trace = <<>> THEN <<>>
    ELSE IF Head(trace).k = "Loader"
         THEN (IF depth = 0 THEN <<Head(trace)>> ELSE <<>>) \o OwnEvents(Tail(trace), depth + 1)
    ELSE IF Head(trace).k = "EndSub" THEN OwnEvents(Tail(trace), depth - 1)
    ELSE (IF depth = 0 THEN <<Head(trace)>> ELSE <<>>) \o OwnEvents(Tail(trace), depth)

\* the index in the trace of the event that entered the innermost open
\* subquery composer, 0 when the options are applied to the query of Select
ContextStart(c) ==
    LET subs == {i \in 1..Len(frames[c]) : frames[c][i].kind = "sub"}
    IN  IF subs = {} THEN 0
        ELSE frames[c][CHOOSE i \in subs : \A j \in subs : j <= i].at

\* the events applied so far to the State and query the options now work on
ContextEvents(c) ==
    OwnEvents(SubSeq(hist[c].trace, ContextStart(c) + 1, Len(hist[c].trace)), 0)

\* the events applied inside the composer that returned last
ReturnedEvents(c) ==
    OwnEvents(SubSeq(hist[c].trace, hist[c].opt.at + 1, Len(hist[c].trace) - 1), 0)

\* a composer has just returned
JustReturned(c) ==
    /\ pc[c] = "running"
    /\ hist[c].trace # <<>>
    /\ hist[c].trace[Len(hist[c].trace)].k = "EndSub"

\* the event adds a column to the pending list
IsLoading(event) == event.k = "Loader" /\ event.shape # "exists"

\* the event adds a predicate to the WHERE clause
IsPredicate(event) ==
    \/ IsExprOption(event)
    \/ event.k = "Loader" /\ event.shape = "exists"

\* the alias of the scope the next option is applied in, from the call stack:
\* the alias WithRelationship handed to the innermost open accessor, or the root
ScopeAlias(c) ==
    IF frames[c] = <<>> THEN hist[c].root ELSE frames[c][Len(frames[c])].alias

\* the alias of the scope around the innermost open accessor
EnclosingAlias(c) ==
    IF Len(frames[c]) <= 1 THEN hist[c].root ELSE frames[c][Len(frames[c]) - 1].alias

\* the relationship names of the open accessors, outermost first
OpenNames(c) == [i \in 1..Len(frames[c]) |-> frames[c][i].name]

RECURSIVE Underscored(_, _)
\* the first n of names written one after the other with '_' between
Underscored(names, n) ==
    IF n = 0 THEN ""
    ELSE IF n = 1 THEN names[1]
    ELSE Underscored(names, n - 1) \o "_" \o names[n]

LastEvent(c) == hist[c].trace[Len(hist[c].trace)]

(***************************************************************************)
(* Properties.                                                             *)
(***************************************************************************)
\* C1: within one Select call every placeholder p<i> of the query tree stands
\* for the value at index i of the parameter list: the placeholders of the tree
\* are p0, p1, ... without gap, one per value; the list holds the values of the
\* options in the order they were built (left to right, nested depth-first); the
\* expression built last took the next free indices, in the order of its
\* arguments (BETWEEN: low then high, IN: one per listed value).
PlaceholdersMatchParams ==
    \A c \in Calls :
        pc[c] # "idle" =>
            LET names == QueryParamNames(q[c])
                last  == ParamNamesIn(hist[c].expr)
            IN  /\ Len(names) = Len(s[c].Params)
                /\ Consecutive(names, 0)
                /\ s[c].Params = ValuesOfAll(SelectSeq(hist[c].trace, IsExprOption))
                /\ Consecutive(last, Len(hist[c].before))
                /\ BoundValues(hist[c].expr, s[c].Params) = ValuesOf(hist[c].opt)
                /\ hist[c].opt.k = "Between" =>
                       /\ hist[c].expr.start.name = ParamName(Len(hist[c].before))
                       /\ hist[c].expr.end.name = ParamName(Len(hist[c].before) + 1)
                       /\ s[c].Params[Len(hist[c].before) + 1] = hist[c].opt.min
                       /\ s[c].Params[Len(hist[c].before) + 2] = hist[c].opt.max
                /\ pc[c] = "done" =>
                       /\ ret[c].params = s[c].Params
                       /\ QueryParamNames(ret[c].query) = names

\* C1, its case: a call that built a comparison, then inside an accessor a
\* BETWEEN, and returned three parameters
PlaceholdersMatchParamsWitness ==
    \E c \in Calls :
        /\ pc[c] = "done"
        /\ Len(ret[c].params) = 3
        /\ hist[c].opt.k = "Between"
        /\ Len(hist[c].before) = 1
        /\ \E i \in 1..Len(hist[c].trace) : hist[c].trace[i].k = "Accessor"

\* C2 as claimed: no two members of the FROM clause carry the same alias
FromAliasesDistinct ==
    \A c \in Calls :
        LET members == FromMembers(q[c].from)
        IN  \A i, j \in 1..Len(members) : i # j => members[i] # members[j]

\* C3: when every expression option applied so far built a predicate (N >= 1 of
\* them), the WHERE clause is those N predicates in call order, joined by
\* exactly N-1 AND connectives
WhereIsConjunctionInOrder ==
    \A c \in Calls :
        LET preds == SelectSeq(hist[c].trace, IsExprOption)
        IN  (/\ pc[c] # "idle"
             /\ Len(preds) >= 1
             /\ \A i \in 1..Len(preds) : ~BuildsNil(preds[i]))
            => /\ q[c].where.k = "where"
               /\ TopAnds(q[c].where.expr) = Len(preds) - 1
               /\ LET operands == Conjuncts(q[c].where.expr)
                  IN  /\ Len(operands) = Len(preds)
                      /\ \A i \in 1..Len(preds) :
                             BuiltFrom(preds[i], operands[i], s[c].Params)

\* C3, its case: a call that applied three predicates, a comparison first
WhereIsConjunctionInOrderWitness ==
    \E c \in Calls :
        /\ pc[c] = "done"
        /\ Len(SelectSeq(hist[c].trace, IsExprOption)) = 3
        /\ TopAnds(q[c].where.expr) = 2
        /\ hist[c].trace[1].k = "Op"
        /\ hist[c].trace[2].k = "Between"

\* C4: And/Or over k >= 2 sub-expressions is a left-nested chain: k-1 nested
\* parenthesized combinations by the operator down the left, whose operands are
\* the sub-expressions in list order, each bound to its own values; the
\* placeholders run in list order from the next free index, and the chain adds
\* exactly k-1 parenthesized nodes to those of its operands
LogicalIsLeftNestedChain ==
    \A c \in Calls :
        (hist[c].opt.k = "logicalOp" /\ Len(hist[c].opt.opts) >= 2) =>
            LET opts  == hist[c].opt.opts
                n     == Len(opts)
                parts == Peel(hist[c].expr, hist[c].opt.op, n - 1)
            IN  /\ Len(parts) = n
                /\ \A i \in 1..n : BuiltFrom(opts[i], parts[i], s[c].Params)
                /\ ParamNamesIn(hist[c].expr) = ParamNamesInAll(parts)
                /\ Consecutive(ParamNamesIn(hist[c].expr), Len(hist[c].before))
                /\ Count(hist[c].expr, "paren") = (n - 1) + CountAll(parts, "paren")

\* C4, its case: an Or of three comparisons applied after another predicate
LogicalIsLeftNestedChainWitness ==
    \E c \in Calls :
        /\ hist[c].opt.k = "logicalOp"
        /\ hist[c].opt.op = "OR"
        /\ Len(hist[c].opt.opts) = 3
        /\ Len(hist[c].before) = 1
        /\ hist[c].expr.k = "paren"
        /\ hist[c].expr.expr.left.k = "paren"

SelectCallsIndependent ==
    /\ \A c \in Calls :
           (pc[c] = "running" /\ hist[c].trace = <<>>) =>
               /\ s[c].Params = <<>>
               /\ s[c].RelationshipPath = <<hist[c].root>>
               /\ s[c].Tables = {hist[c].root}
               /\ s[c].SubqueryColumns = <<>>
               /\ q[c].where = Nil /\ q[c].orderBy = Nil /\ q[c].limit = Nil
               /\ q[c].from = TableName(hist[c].root, "")
    /\ \A c1, c2 \in Calls :
           (/\ pc[c1] = "done" /\ pc[c2] = "done"
            /\ hist[c1].root = hist[c2].root
            /\ hist[c1].trace = hist[c2].trace)
           => ret[c1] = ret[c2]

\* C6, its case: two calls that were given the same two options, a predicate
\* among them, and have both returned
SelectCallsIndependentWitness ==
    \E c1, c2 \in Calls :
        /\ c1 # c2
        /\ pc[c1] = "done" /\ pc[c2] = "done"
        /\ hist[c1].root = hist[c2].root
        /\ hist[c1].trace = hist[c2].trace
        /\ hist[c1].n = 2
        /\ Len(ret[c1].params) >= 1
        /\ ret[c1] = ret[c2]

\* C7: an expression or ordering option is qualified with the alias of the
\* scope it is applied in: the alias of the innermost open accessor, or the root
\* table when none is open (so again the enclosing alias once an accessor has
\* returned); the join an accessor adds has that accessor's alias on its right
\* and the alias that was current before the accessor on the left of its
\* condition (for a junction accessor, of the condition of its first join)
OptionsQualifiedByScope ==
    \A c \in Calls :
        (pc[c] \in {"running", "done"} /\ hist[c].trace # <<>>) =>
            LET ev == LastEvent(c)
                top == q[c].from
            IN  /\ IsExprOption(ev) => Qualifiers(hist[c].expr) \subseteq {ScopeAlias(c)}
                /\ ev.k = "OrderBy" =>
                       q[c].orderBy.items[Len(q[c].orderBy.items)].expr.idents[1] = ScopeAlias(c)
                /\ ev.k = "Accessor" =>
                       /\ top.k = "join"
                       /\ top.right.as = ScopeAlias(c)
                       /\ top.cond.right.idents[1] = ScopeAlias(c)
                       /\ IF frames[c][Len(frames[c])].junction = ""
                          THEN top.cond.left.idents[1] = EnclosingAlias(c)
                          ELSE /\ top.left.k = "join"
                               /\ top.left.cond.left.idents[1] = EnclosingAlias(c)
                               /\ top.left.cond.right.idents[1] = top.left.right.as
                               /\ top.cond.left.idents[1] = top.left.right.as

\* C7, its case: a predicate inside an accessor, then, the accessor having
\* returned, a predicate of the root table
OptionsQualifiedByScopeWitness ==
    \E c \in Calls :
        /\ pc[c] = "running"
        /\ Len(hist[c].trace) = 4
        /\ hist[c].trace[1].k = "Accessor"
        /\ hist[c].trace[2].k = "Op"
        /\ hist[c].trace[3].k = "End"
        /\ hist[c].trace[4].k = "Op"
        /\ Qualifiers(q[c].where.expr) = {hist[c].root, hist[c].trace[1].name}

\* C8: the current alias is the root table name when the path holds the root
\* alone, otherwise the relationship names after the root joined by '_'; the
\* alias handed to an accessor is the names of the accessors open down to it;
\* a junction table gets the alias current before its accessor, '_', its name:
\* post through post_tag to tags joins post_tag AS post_post_tag and tag AS tags
AliasesFollowPath ==
    \A c \in Calls :
        pc[c] = "running" =>
            LET path == s[c].RelationshipPath
                top  == q[c].from
            IN  /\ Len(path) >= 1 /\ path[1] = hist[c].root
                /\ Len(path) = 1 => CurrentAlias(s[c]) = hist[c].root
                /\ Len(path) > 1 =>
                       CurrentAlias(s[c]) = Underscored(Tail(path), Len(path) - 1)
                /\ \A i \in 1..Len(frames[c]) :
                       frames[c][i].alias = Underscored(OpenNames(c), i)
                /\ (/\ hist[c].trace # <<>>
                    /\ LastEvent(c).k = "Accessor"
                    /\ frames[c][Len(frames[c])].junction # "") =>
                       /\ top.left.right.name = frames[c][Len(frames[c])].junction
                       /\ top.left.right.as
                            = EnclosingAlias(c) \o "_" \o frames[c][Len(frames[c])].junction
                /\ (hist[c].root = "post"
                      /\ hist[c].trace = <<[k |-> "Accessor", on |-> "post", name |-> "tags"]>>) =>
                       /\ top.left.right = TableName("post_tag", "post_post_tag")
                       /\ top.right = TableName("tag", "tags")
                       /\ top.left.cond = BinaryExpr("=", Path("post", "id"),
                                                     Path("post_post_tag", "post_id"))
                       /\ top.cond = BinaryExpr("=", Path("post_post_tag", "tag_id"),
                                                Path("tags", "id"))

\* C8, its case: Select on post with the accessor Tags open
AliasesFollowPathWitness ==
    \E c \in Calls :
        /\ pc[c] = "running"
        /\ hist[c].root = "post"
        /\ hist[c].trace = <<[k |-> "Accessor", on |-> "post", name |-> "tags"]>>
        /\ s[c].Tables = {"post", "post_post_tag", "tags"}

\* C9: the relationship path is the root followed by the names of the accessors
\* that are open, so an option that has returned leaves the path as it found it
\* and between the options of Select it is the root alone; the path an accessor
\* saved is the path of the scope around it; a junction alias is not on the path
PathFollowsOpenScopes ==
    \A c \in Calls :
        pc[c] \in {"running", "done"} =>
            /\ s[c].RelationshipPath = <<hist[c].root>> \o OpenNames(c)
            /\ \A i \in 1..Len(frames[c]) :
                   frames[c][i].basePath = <<hist[c].root>> \o SubSeq(OpenNames(c), 1, i - 1)
            /\ frames[c] = <<>> => s[c].RelationshipPath = <<hist[c].root>>

\* C9, its case: a direct accessor with a junction accessor nested in it, both
\* returned
PathFollowsOpenScopesWitness ==
    \E c \in Calls :
        /\ pc[c] = "running"
        /\ frames[c] = <<>>
        /\ hist[c].trace = <<[k |-> "Accessor", on |-> "user", name |-> "posts"],
                             [k |-> "Accessor", on |-> "post", name |-> "tags"],
                             [k |-> "End"], [k |-> "End"]>>
        /\ s[c].Tables = {"user", "posts", "posts_post_tag", "posts_tags"}

\* C10 as claimed: when the function passed to WithRelationship panics, the
\* path is popped back to the value it had before the call
PathRestoredAfterPanic ==
    \A c \in Calls :
        pc[c] = "panicked" => s[c].RelationshipPath = <<hist[c].root>>

\* C11: the FROM source is a chain of join nodes down the left children, ending
\* in the root table; every node has one aliased table as its right child; the
\* tables joined are, oldest first, those of the accessors in the order they were
\* applied: one (the target) per direct accessor, two (the junction, then the
\* target) per junction accessor
JoinsChainedInOrder ==
    \A c \in Calls :
        pc[c] \in {"running", "done"} =>
            LET chain == JoinChain(q[c].from)
            IN  /\ [i \in 1..Len(chain) |-> chain[i].right.name] = TablesJoinedBy(hist[c].trace)
                /\ \A i \in 1..Len(chain) :
                       /\ chain[i].right.k = "table"
                       /\ chain[i].right.as # ""
                /\ IF chain = <<>> THEN q[c].from = TableName(hist[c].root, "")
                   ELSE chain[1].left = TableName(hist[c].root, "")

\* C11, its case: a direct accessor and, nested in it, a junction accessor
JoinsChainedInOrderWitness ==
    \E c \in Calls :
        /\ pc[c] = "running"
        /\ hist[c].trace = <<[k |-> "Accessor", on |-> "user", name |-> "posts"],
                             [k |-> "Accessor", on |-> "post", name |-> "tags"]>>
        /\ Len(JoinChain(q[c].from)) = 3

\* C12: as long as no WithInnerJoin was applied, the join of a belongs-to
\* accessor is an INNER JOIN and the joins of a has-many or many-to-many
\* accessor are LEFT OUTER JOINs
DefaultJoinKinds ==
    \A c \in Calls :
        (pc[c] \in {"running", "done"} /\ EventsOfKind(hist[c].trace, "WithInnerJoin") = {}) =>
            LET chain == JoinChain(q[c].from)
            IN  [i \in 1..Len(chain) |-> chain[i].op] = DefaultKindsOf(hist[c].trace)

\* C12, its case: a belongs-to accessor, then a many-to-many accessor
DefaultJoinKindsWitness ==
    \E c \in Calls :
        /\ pc[c] = "running"
        /\ hist[c].trace = <<[k |-> "Accessor", on |-> "post", name |-> "author"],
                             [k |-> "End"],
                             [k |-> "Accessor", on |-> "post", name |-> "tags"]>>
        /\ q[c].from.op = "LEFT OUTER JOIN"
        /\ q[c].from.left.left.op = "INNER JOIN"

\* C13: the step that applies WithInnerJoin sets the kind of the join node added
\* last (the top of the FROM source) to INNER and changes nothing else of the
\* query or of the State; with no join in the FROM clause it changes nothing
WithInnerJoinFlipsLastJoin ==
    [][\A c \in Calls :
          (/\ pc[c] = "running"
           /\ hist'[c].trace = Append(hist[c].trace, [k |-> "WithInnerJoin"]))
          => /\ pc'[c] = "running"
             /\ s'[c] = s[c]
             /\ IF q[c].from.k = "join"
                THEN q'[c] = [q[c] EXCEPT !.from = [q[c].from EXCEPT !.op = "INNER JOIN"]]
                ELSE q'[c] = q[c]]_vars

\* C13, its case: WithInnerJoin was applied last, the FROM source has several
\* joins, the top one is INNER and the one below it is not
WithInnerJoinFlipsLastJoinWitness ==
    \E c \in Calls :
        /\ pc[c] = "running"
        /\ hist[c].trace # <<>>
        /\ LastEvent(c).k = "WithInnerJoin"
        /\ Len(JoinChain(q[c].from)) >= 2
        /\ q[c].from.op = "INNER JOIN"
        /\ q[c].from.left.op = "LEFT OUTER JOIN"

\* C14 as claimed: once WithInnerJoin was applied among the nested options of
\* an accessor, every join node that accessor added is an INNER JOIN
InnerJoinOverridesAccessorJoins ==
    \A c \in Calls :
        (/\ pc[c] = "running"
         /\ hist[c].trace # <<>>
         /\ LastEvent(c).k = "WithInnerJoin"
         /\ frames[c] # <<>>)
        => LET f == frames[c][Len(frames[c])]
               chain == JoinChain(q[c].from)
               mine == {f.alias} \cup (IF f.junction = "" THEN {}
                                       ELSE {f.baseAlias \o "_" \o f.junction})
           IN  \A i \in 1..Len(chain) :
                   chain[i].right.as \in mine => chain[i].op = "INNER JOIN"

\* C15 as claimed: Select on post with Tags(a predicate on tag.name) joins
\* post_tag and tag under their table names and qualifies the predicate by tag
TagsJoinedByTableName ==
    \A c \in Calls :
        (/\ pc[c] = "done"
         /\ hist[c].root = "post"
         /\ hist[c].trace = <<[k |-> "Accessor", on |-> "post", name |-> "tags"],
                              Eq("tag", "a"), [k |-> "End"]>>)
        => /\ FromMembers(ret[c].query.from) = <<"post", "post_tag", "tag">>
           /\ ret[c].query.from.left.cond
                = BinaryExpr("=", Path("post", "id"), Path("post_tag", "post_id"))
           /\ ret[c].query.from.cond
                = BinaryExpr("=", Path("post_tag", "tag_id"), Path("tag", "id"))
           /\ ret[c].query.where.expr = BinaryExpr("=", Path("tag", "name"), Param(0))

\* C15 as amended: Select on post with Tags(a predicate on tag.name) yields
\* post LEFT OUTER JOIN post_tag AS post_post_tag ON post.id =
\* post_post_tag.post_id LEFT OUTER JOIN tag AS tags ON post_post_tag.tag_id =
\* tags.id, the predicate tags.name = @p0 and the one parameter: the junction
\* and the target are referred to by the aliases post_post_tag and tags
TagsJoinedByAlias ==
    \A c \in Calls :
        (/\ pc[c] = "done"
         /\ hist[c].root = "post"
         /\ hist[c].trace = <<[k |-> "Accessor", on |-> "post", name |-> "tags"],
                              Eq("tag", "a"), [k |-> "End"]>>)
        => /\ ret[c].query.from
                = [k |-> "join",
                   left |-> [k |-> "join",
                             left |-> TableName("post", ""),
                             op |-> "LEFT OUTER JOIN",
                             right |-> TableName("post_tag", "post_post_tag"),
                             cond |-> BinaryExpr("=", Path("post", "id"),
                                                 Path("post_post_tag", "post_id"))],
                   op |-> "LEFT OUTER JOIN",
                   right |-> TableName("tag", "tags"),
                   cond |-> BinaryExpr("=", Path("post_post_tag", "tag_id"),
                                       Path("tags", "id"))]
           /\ ret[c].query.where.expr = BinaryExpr("=", Path("tags", "name"), Param(0))
           /\ ret[c].params = <<"a">>

\* C15, its case: that Select call has returned
TagsJoinedByAliasWitness ==
    \E c \in Calls :
        /\ pc[c] = "done"
        /\ hist[c].root = "post"
        /\ hist[c].trace = <<[k |-> "Accessor", on |-> "post", name |-> "tags"],
                             Eq("tag", "a"), [k |-> "End"]>>
        /\ Len(ret[c].params) = 1

\* C16: at any depth the parameter list of the State the options work on is
\* the values of all expression options applied so far, in order, once each;
\* when a subquery composer returns, the parent's list is its list before the
\* call followed by the values of the options nested in the composer
SubqueryParamsMergedInOrder ==
    \A c \in Calls :
        /\ pc[c] \in {"running", "done"} => s[c].Params = ValuesOfAll(hist[c].trace)
        /\ JustReturned(c) =>
               s[c].Params
                 = hist[c].before
                     \o ValuesOfAll(SubSeq(hist[c].trace, hist[c].opt.at + 1,
                                           Len(hist[c].trace) - 1))

\* C16, its case: a composer applied after a predicate, with a predicate nested
\* in it, has returned
SubqueryParamsMergedInOrderWitness ==
    \E c \in Calls :
        /\ JustReturned(c)
        /\ hist[c].n = 3
        /\ hist[c].trace[1].k = "Op"
        /\ hist[c].trace[2].k = "Loader"
        /\ hist[c].trace[3].k = "Op"
        /\ hist[c].before = <<hist[c].trace[1].value>>
        /\ s[c].Params = <<hist[c].trace[1].value, hist[c].trace[3].value>>

\* C17: the pending list of the State the options work on holds one column per
\* loading option applied to it, under the relationship names in the order of
\* application; while options are applied the result items of Select stay
\* table.*; Select returns table.* followed by the pending columns in order
PendingColumnsAddedLast ==
    \A c \in Calls :
        /\ pc[c] = "running" =>
               LET own == SelectSeq(ContextEvents(c), IsLoading)
               IN  /\ [i \in 1..Len(s[c].SubqueryColumns) |-> s[c].SubqueryColumns[i].Alias]
                        = [i \in 1..Len(own) |-> own[i].name]
                   /\ ContextStart(c) = 0 => q[c].results = <<DotStar(hist[c].root)>>
                   /\ (JustReturned(c) /\ hist[c].opt.shape # "exists") =>
                          s[c].SubqueryColumns[Len(s[c].SubqueryColumns)].Subquery = hist[c].expr
        /\ pc[c] = "done" =>
               /\ ret[c].query.results
                    = <<DotStar(hist[c].root)>>
                        \o [i \in 1..Len(s[c].SubqueryColumns) |->
                               [k |-> "alias", expr |-> s[c].SubqueryColumns[i].Subquery,
                                as |-> s[c].SubqueryColumns[i].Alias]]
               /\ Len(ret[c].query.results)
                    = 1 + Len(SelectSeq(OwnEvents(hist[c].trace, 0), IsLoading))

\* C17, its case: Select on post with WithAuthor and then WithTags has returned
PendingColumnsAddedLastWitness ==
    \E c \in Calls :
        /\ pc[c] = "done"
        /\ hist[c].root = "post"
        /\ Len(ret[c].query.results) = 3
        /\ ret[c].query.results[2].as = "author"
        /\ ret[c].query.results[2].expr.k = "scalar"
        /\ ret[c].query.results[3].as = "tags"
        /\ ret[c].query.results[3].expr.k = "array"

\* C18: when an EXISTS filter returns it has built EXISTS over SELECT 1 from
\* the target (joined to the junction table for a many-to-many filter), whose
\* WHERE is the correlation to the alias current where the filter is applied
\* followed by the predicates nested in the filter, one per nested predicate
\* option; that expression is the last conjunct of the parent's WHERE; the joins
\* and the pending columns of the parent are those of the parent's own options
ExistsFilterIsOnePredicate ==
    \A c \in Calls :
        (JustReturned(c) /\ hist[c].opt.shape = "exists") =>
            LET l == hist[c].trace[hist[c].opt.at]
                ld == CHOOSE x \in Loaders : x.on = l.on /\ x.name = l.name /\ x.shape = "exists"
                sub == hist[c].expr.query
                conj == Conjuncts(sub.where.expr)
                nested == SelectSeq(ReturnedEvents(c), IsPredicate)
                parentConj == Conjuncts(q[c].where.expr)
                own == ContextEvents(c)
            IN  /\ hist[c].expr.k = "exists"
                /\ sub.results = <<ExprSelectItem(IntLiteral("1"))>>
                /\ IF ld.junction = ""
                   THEN /\ IF sub.from.k = "join"
                           THEN JoinChain(sub.from)[1].left = TableName(ld.target, "")
                           ELSE sub.from = TableName(ld.target, "")
                        /\ conj[1] = BinaryExpr("=", Path(ld.target, ld.keys.To),
                                                Path(CurrentAlias(s[c]), ld.keys.From))
                   ELSE /\ JoinChain(sub.from)[1].left = TableName(ld.target, "")
                        /\ JoinChain(sub.from)[1].right = TableName(ld.junction, "")
                        /\ conj[1] = BinaryExpr("=", Path(ld.junction, ld.keys.To),
                                                Path(CurrentAlias(s[c]), ld.keys.From))
                /\ Len(conj) = 1 + Len(nested)
                /\ \A i \in 1..Len(nested) :
                       IF nested[i].k = "Op"
                       THEN /\ conj[i + 1].k = "binary"
                            /\ conj[i + 1].op = nested[i].op
                            /\ conj[i + 1].left.idents[2] = nested[i].col
                            /\ BoundValues(conj[i + 1], s[c].Params) = <<nested[i].value>>
                       ELSE conj[i + 1].k = "exists"
                /\ parentConj[Len(parentConj)] = hist[c].expr
                /\ [i \in 1..Len(s[c].SubqueryColumns) |-> s[c].SubqueryColumns[i].Alias]
                     = [i \in 1..Len(SelectSeq(own, IsLoading)) |->
                            SelectSeq(own, IsLoading)[i].name]
                /\ ContextStart(c) = 0 =>
                       /\ [i \in 1..Len(JoinChain(q[c].from)) |-> JoinChain(q[c].from)[i].right.name]
                            = TablesJoinedBy(own)
                       /\ Len(parentConj) = Len(SelectSeq(own, IsPredicate))

\* C18, its case: Select on user with WherePosts(a predicate on post.title)
ExistsFilterIsOnePredicateWitness ==
    \E c \in Calls :
        /\ JustReturned(c)
        /\ hist[c].root = "user"
        /\ hist[c].trace = <<[k |-> "Loader", shape |-> "exists", on |-> "user", name |-> "posts"],
                             Eq("post", "a"), [k |-> "EndSub"]>>
        /\ q[c].where.expr
             = [k |-> "exists",
                query |-> SubQuery(<<ExprSelectItem(IntLiteral("1"))>>,
                                   TableName("post", ""),
                                   Where(BinaryExpr("AND",
                                             BinaryExpr("=", Path("post", "user_id"),
                                                        Path("user", "id")),
                                             BinaryExpr("=", Path("post", "title"),
                                                        Param(0)))))]

\* C19 as claimed: when a loading option returns, every loading option that was
\* nested in it is a column, under its relationship name, of the subquery built
NestedLoadIsColumnOfOuter ==
    \A c \in Calls :
        (JustReturned(c) /\ hist[c].opt.shape # "exists") =>
            LET inner == SelectSeq(ReturnedEvents(c), IsLoading)
                items == hist[c].expr.query.results
            IN  \A i \in 1..Len(inner) :
                    \E j \in 1..Len(items) :
                        items[j].k = "alias" /\ items[j].as = inner[i].name

\* C20 as claimed: Select on user with Not(name = a) has the WHERE expression
\* NOT applied to the comparison itself, no parentheses between, and the one
\* parameter
NotOfComparisonIsBare ==
    \A c \in Calls :
        (/\ pc[c] = "done"
         /\ hist[c].root = "user"
         /\ hist[c].trace = <<NotOption(Eq("user", "a"))>>)
        => /\ ret[c].query.where.expr
                = UnaryExpr("NOT", BinaryExpr("=", Path("user", "name"), Param(0)))
           /\ ret[c].params = <<"a">>

(***************************************************************************)
(* The code generator: plate.Generator over a Schema.  A run r is one      *)
(* Generator object; GenerateFiles validates the schema, derives the       *)
(* relations, renders tables/tables.go and one query builder per table     *)
(* config, and Generate then writes the file map to the output directory.  *)
(***************************************************************************)
\* table configs of one Schema
MaxTables == 2

\* the characters of the type names the schemas use (Go indexes a string)
Runes ==
    [User    |-> <<"U", "s", "e", "r">>,
     Post    |-> <<"P", "o", "s", "t">>,
     Tag     |-> <<"T", "a", "g">>,
     PostTag |-> <<"P", "o", "s", "t", "T", "a", "g">>,
     Tables  |-> <<"T", "a", "b", "l", "e", "s">>]

UpperLetters == <<"A", "B", "C", "D", "E", "F", "G", "H", "I", "J", "K", "L", "M", "N", "O", "P", "Q", "R", "S", "T", "U", "V", "W", "X", "Y", "Z">>

LowerLetters == <<"a", "b", "c", "d", "e", "f", "g", "h", "i", "j", "k", "l", "m", "n", "o", "p", "q", "r", "s", "t", "u", "v", "w", "x", "y", "z">>

\* unicode.IsUpper, unicode.IsLower, unicode.ToLower on letters and "_"
IsUpper(r) == \E i \in DOMAIN UpperLetters : UpperLetters[i] = r

IsLower(r) == \E i \in DOMAIN LowerLetters : LowerLetters[i] = r

ToLower(r) ==
    IF IsUpper(r)
    THEN LowerLetters[CHOOSE i \in DOMAIN UpperLetters : UpperLetters[i] = r]
    ELSE r

RECURSIVE toSnakeCaseFrom(_, _)
\* the loop of toSnakeCase from rune i on (i counts from 1)
toSnakeCaseFrom(rs, i) ==
    IF i > Len(rs) THEN ""
    ELSE LET r == rs[i]
             prevIsLower == i > 1 /\ IsLower(rs[i - 1])
             nextIsLower == i < Len(rs) /\ IsLower(rs[i + 1])
             piece == IF IsUpper(r)
                      THEN (IF i > 1 /\ (prevIsLower \/ nextIsLower) THEN "_" ELSE "")
                               \o ToLower(r)
                      ELSE r
         IN  piece \o toSnakeCaseFrom(rs, i + 1)

toSnakeCase(str) == IF str = "" THEN "" ELSE toSnakeCaseFrom(Runes[str], 1)

\* Generator.toPackageName
toPackageName(typeName) == toSnakeCase(typeName)

\* a model instance: reflect sees the package and the name of its type
Model(name) == [pkg |-> "models", name |-> name]

TableSchema(tableName, model) == [TableName |-> tableName, Model |-> model]

Relation(name, target, from, to, reverseName) == [Name |-> name, Target |-> target, From |-> from, To |-> to, ReverseName |-> reverseName]

TableConfig(schema, relations) == [Schema |-> schema, Relations |-> relations]

JunctionConfig(schema, relations) == [Schema |-> schema, Relations |-> relations]

KeyPair(from, to) == [From |-> from, To |-> to]

\* Generator.getTypeName: reflect.TypeOf(schema.Model).Name()
getTypeName(schema) == schema.Model.name

(***************************************************************************)
(* The schemas the generator is given: the example schema of               *)
(* examples/generate.go, its parts, and variations of them.                *)
(***************************************************************************)
AuthorRelation == Relation("Author", "User", "UserID", "ID", "Posts")

\* a relation without a ReverseName
ReviewerRelation == Relation("Reviewer", "User", "ReviewerID", "ID", "")

PostRelation == Relation("Post", "Post", "PostID", "ID", "Tags")

PostRelationOneWay == Relation("Post", "Post", "PostID", "ID", "")

TagRelation == Relation("Tag", "Tag", "TagID", "ID", "Posts")

TableConfigs ==
    {TableConfig(TableSchema("user", Model("User")), <<>>),
     TableConfig(TableSchema("post", Model("Post")), <<AuthorRelation, ReviewerRelation>>),
     TableConfig(TableSchema("tag", Model("Tag")), <<>>),
     TableConfig(TableSchema("post_tag", Model("PostTag")), <<>>),
     TableConfig(TableSchema("tables", Model("Tables")), <<>>)}

JunctionRelationLists ==
    {<<PostRelation>>,
     <<PostRelation, TagRelation>>,
     <<PostRelationOneWay, TagRelation>>,
     <<PostRelation, TagRelation, PostRelation>>}

JunctionLists ==
    {<<>>} \cup {<<JunctionConfig(TableSchema("post_tag", Model("PostTag")), rs)>> : rs \in JunctionRelationLists}

SeqUpTo(S, n) == UNION {[1..k -> S] : k \in 0..n}

Schemas ==
    {[Tables |-> ts, Junctions |-> js] : ts \in SeqUpTo(TableConfigs, MaxTables), js \in JunctionLists}

(***************************************************************************)
(* Go maps, as functions over the keys present.                            *)
(***************************************************************************)
EmptyMap == [key \in {} |-> Nil]

MapPut(m, key, value) == [x \in DOMAIN m \cup {key} |-> IF x = key THEN value ELSE m[x]]

\* m[key], the zero value (a nil slice) when the key is absent
MapSlice(m, key) == IF key \in DOMAIN m THEN m[key] ELSE <<>>

\* m[key] = append(m[key], value)
MapAppend(m, key, value) == MapPut(m, key, Append(MapSlice(m, key), value))

\* the orders in which a range over a map of these keys can visit them
RangeOrders(keys) ==
    {order \in [1..Cardinality(keys) -> keys] : \A i, j \in DOMAIN order : order[i] = order[j] => i = j}

(***************************************************************************)
(* Generator.validateConfig, buildTableMap, buildRelationMap.              *)
(***************************************************************************)
RECURSIVE validateTables(_, _, _)
\* the first loop of validateConfig from table config i on; "" is a nil error
validateTables(tables, i, seen) ==
    IF i > Len(tables) THEN ""
    ELSE LET name == getTypeName(tables[i].Schema)
         IN  IF name \in seen
             THEN "duplicate table: " \o name
             ELSE validateTables(tables, i + 1, seen \cup {name})

RECURSIVE validateJunctions(_, _)
\* the second loop of validateConfig from junction config i on
validateJunctions(junctions, i) ==
    IF i > Len(junctions) THEN ""
    ELSE IF Len(junctions[i].Relations) # 2
         THEN "junction table " \o getTypeName(junctions[i].Schema)
                  \o " must have exactly 2 relations, got "
                  \o ToString(Len(junctions[i].Relations))
         ELSE validateJunctions(junctions, i + 1)

validateConfigTablesOnly(schema) == validateTables(schema.Tables, 1, {})

validateConfig(schema) ==
    LET err == validateTables(schema.Tables, 1, {})
    IN  IF err # "" THEN err ELSE validateJunctions(schema.Junctions, 1)

RECURSIVE putSchemas(_, _, _)
\* m[name] = config.Schema for the configs from i on
putSchemas(m, configs, i) ==
    IF i > Len(configs) THEN m
    ELSE putSchemas(MapPut(m, getTypeName(configs[i].Schema), configs[i].Schema), configs, i + 1)

buildTableMap(schema) == putSchemas(putSchemas(EmptyMap, schema.Tables, 1), schema.Junctions, 1)

generatedRelation(name, type, target, keys, junctionTable, junctionKeys) == [Name |-> name, Type |-> type, Target |-> target, Keys |-> keys, JunctionTable |-> junctionTable, JunctionKeys |-> junctionKeys]

\* the zero value of the fields a literal leaves out
NoKeys == KeyPair("", "")

\* the BelongsTo relation appended for rel, declared on typeName
withBelongsTo(relations, typeName, rel) ==
    MapAppend(relations, typeName,
              generatedRelation(rel.Name, "belongs_to", rel.Target, KeyPair(rel.From, rel.To), "", NoKeys))

withHasManyUnswapped(relations, typeName, rel) ==
    IF rel.ReverseName # ""
    THEN MapAppend(relations, rel.Target,
                   generatedRelation(rel.ReverseName, "has_many", typeName, KeyPair(rel.From, rel.To), "", NoKeys))
    ELSE relations

\* the reverse HasMany relation appended for rel when it has a ReverseName
withHasMany(relations, typeName, rel) ==
    IF rel.ReverseName # ""
    THEN MapAppend(relations, rel.Target,
                   generatedRelation(rel.ReverseName, "has_many", typeName, KeyPair(rel.To, rel.From), "", NoKeys))
    ELSE relations

RECURSIVE withRelationsOf(_, _, _, _)
\* the inner loop of step 1 from relation j of the table config on
withRelationsOf(relations, typeName, rels, j) ==
    IF j > Len(rels) THEN relations
    ELSE withRelationsOf(withHasMany(withBelongsTo(relations, typeName, rels[j]), typeName, rels[j]),
                         typeName, rels, j + 1)

RECURSIVE withTableRelations(_, _, _)
\* step 1 of buildRelationMap from table config i on
withTableRelations(relations, tables, i) ==
    IF i > Len(tables) THEN relations
    ELSE withTableRelations(
             withRelationsOf(relations, getTypeName(tables[i].Schema), tables[i].Relations, 1),
             tables, i + 1)

withManyToManySameKeys(relations, junctionName, rel1, rel2) ==
    IF rel1.ReverseName # ""
    THEN MapAppend(relations, rel1.Target,
                   generatedRelation(rel1.ReverseName, "many_to_many", rel2.Target,
                                     KeyPair(rel1.To, rel1.From), junctionName,
                                     KeyPair(rel1.From, rel1.To)))
    ELSE relations

\* the ManyToMany relation on rel1's target toward rel2's target, appended
\* when rel1 has a ReverseName
withManyToMany(relations, junctionName, rel1, rel2) ==
    IF rel1.ReverseName # ""
    THEN MapAppend(relations, rel1.Target,
                   generatedRelation(rel1.ReverseName, "many_to_many", rel2.Target,
                                     KeyPair(rel1.To, rel1.From), junctionName,
                                     KeyPair(rel2.From, rel2.To)))
    ELSE relations

RECURSIVE withJunctionRelations(_, _, _)
\* step 2 of buildRelationMap from junction config i on
withJunctionRelations(relations, junctions, i) ==
    IF i > Len(junctions) THEN relations
    ELSE IF Len(junctions[i].Relations) # 2
         THEN withJunctionRelations(relations, junctions, i + 1)
         ELSE LET junctionName == getTypeName(junctions[i].Schema)
                  rel1 == junctions[i].Relations[1]
                  rel2 == junctions[i].Relations[2]
              IN  withJunctionRelations(
                      withManyToMany(withManyToMany(relations, junctionName, rel1, rel2),
                                     junctionName, rel2, rel1),
                      junctions, i + 1)

buildRelationMap(schema) ==
    withJunctionRelations(withTableRelations(EmptyMap, schema.Tables, 1), schema.Junctions, 1)

(***************************************************************************)
(* Rendering.  The templates are text/template files: the text is a        *)
(* function of the template's name and of the data it is executed on, a    *)
(* list being rendered element by element in its order.                    *)
(***************************************************************************)
renderTemplate(name, data) == [template |-> name, data |-> data]

RECURSIVE tablesIn(_, _, _, _)
\* the loop of generateTablesPackage over the map, visited in this order:
\* a type is listed when some table config has it
tablesIn(schema, tableMap, order, i) ==
    IF i > Len(order) THEN <<>>
    ELSE LET typeName == order[i]
             listed == \E n \in DOMAIN schema.Tables : getTypeName(schema.Tables[n].Schema) = typeName
             rest == tablesIn(schema, tableMap, order, i + 1)
         IN  IF listed
             THEN <<[TypeName |-> typeName, TableName |-> tableMap[typeName].TableName]>> \o rest
             ELSE rest

\* Generator.generateTablesPackage, the range over tableMap taking this order
generateTablesPackage(schema, tableMap, order) ==
    renderTemplate("tables", [Tables |-> tablesIn(schema, tableMap, order, 1)])

\* Generator.generateQueryBuilder when the import paths resolve (the columns
\* and imports of the model are left out: they do not depend on the schema's
\* relations)
generateQueryBuilder(tc, tableMap, relationMap) ==
    LET typeName == getTypeName(tc.Schema)
    IN  renderTemplate("queryBuilder",
                       [PackageName |-> toPackageName(typeName),
                        TypeName |-> typeName,
                        TableName |-> tc.Schema.TableName,
                        Relations |-> MapSlice(relationMap, typeName)])

\* fmt.Sprintf("%s/%s.go", packageName, packageName)
BuilderPath(packageName) == packageName \o "/" \o packageName \o ".go"

TablesPath == "tables/tables.go"

(***************************************************************************)
(* The steps of Generator.GenerateFiles and Generator.Generate.            *)
(***************************************************************************)
GeneratedFiles(files) == [Files |-> files]

\* what GenerateFiles returns: the files and the error ("" is nil)
Returned(files, err) == [k |-> "returned", files |-> GeneratedFiles(files), err |-> err]

ZeroGenerator ==
    [pc |-> "idle", schema |-> Nil, tableMap |-> EmptyMap, relationMap |-> EmptyMap,
     files |-> EmptyMap, i |-> 0, result |-> Nil, disk |-> EmptyMap, prev |-> Nil]

InitRuns(ids) == gen = [r \in ids |-> ZeroGenerator]

InitGen == InitCalls({}) /\ InitRuns({1})

Runs == DOMAIN gen

Finished(r) == gen[r].pc \in {"returned", "written", "failed"}

\* GenerateFiles is entered: g.schema = schema
Entered(g, schema) ==
    [g EXCEPT !.pc = "validate", !.schema = schema, !.tableMap = EmptyMap,
              !.relationMap = EmptyMap, !.files = EmptyMap, !.i = 0, !.result = Nil,
              !.prev = IF g.pc = "idle" THEN Nil ELSE [schema |-> g.schema, result |-> g.result]]

\* the first call of Generate on the Generator
GenerateFilesBegin(r, schema) ==
    /\ gen[r].pc = "idle"
    /\ gen' = [gen EXCEPT ![r] = Entered(gen[r], schema)]
    /\ UNCHANGED selectVars

\* the driver is run again on the schema it was run on
GenerateFilesAgain(r) ==
    /\ Finished(r)
    /\ gen' = [gen EXCEPT ![r] = Entered(gen[r], gen[r].schema)]
    /\ UNCHANGED selectVars

\* validateConfig, and on success buildTableMap and buildRelationMap
GenerateFilesValidate(r) ==
    /\ gen[r].pc = "validate"
    /\ LET err == validateConfig(gen[r].schema)
       IN  gen' = [gen EXCEPT ![r] =
                      IF err # ""
                      THEN [@ EXCEPT !.pc = "failed",
                                     !.result = Returned(EmptyMap, "invalid configuration: " \o err)]
                      ELSE [@ EXCEPT !.pc = "tables",
                                     !.tableMap = buildTableMap(gen[r].schema),
                                     !.relationMap = buildRelationMap(gen[r].schema)]]
    /\ UNCHANGED selectVars

\* files["tables/tables.go"] = tablesCode
GenerateFilesTables(r) ==
    /\ gen[r].pc = "tables"
    /\ \E order \in RangeOrders(DOMAIN gen[r].tableMap) :
           gen' = [gen EXCEPT ![r] =
                      [@ EXCEPT !.pc = "builders", !.i = 1,
                                !.files = MapPut(EmptyMap, TablesPath,
                                                 generateTablesPackage(gen[r].schema, gen[r].tableMap, order))]]
    /\ UNCHANGED selectVars

\* one turn of the loop over g.schema.Tables, the import paths resolving:
\* the builder is stored under its path
GenerateFilesBuilder(r) ==
    /\ gen[r].pc = "builders"
    /\ gen[r].i <= Len(gen[r].schema.Tables)
    /\ LET tc == gen[r].schema.Tables[gen[r].i]
           typeName == getTypeName(tc.Schema)
           packageName == toPackageName(typeName)
       IN  gen' = [gen EXCEPT ![r] =
                      [@ EXCEPT !.i = @ + 1,
                                !.files = MapPut(@, BuilderPath(packageName),
                                                 generateQueryBuilder(tc, gen[r].tableMap, gen[r].relationMap))]]
    /\ UNCHANGED selectVars

\* return GeneratedFiles{Files: files}, nil
GenerateFilesReturn(r) ==
    /\ gen[r].pc = "builders"
    /\ gen[r].i > Len(gen[r].schema.Tables)
    /\ gen' = [gen EXCEPT ![r] = [@ EXCEPT !.pc = "returned", !.result = Returned(gen[r].files, "")]]
    /\ UNCHANGED selectVars

\* writeFiles: the directory is removed first when Clean is set, then every
\* file of the map is written
writeFiles(disk, files, clean) ==
    LET kept == IF clean THEN EmptyMap ELSE disk
    IN  [path \in DOMAIN kept \cup DOMAIN files |-> IF path \in DOMAIN files THEN files[path] ELSE kept[path]]

\* Generate after GenerateFiles returned without error
GenerateWrite(r, clean) ==
    /\ gen[r].pc = "returned"
    /\ gen' = [gen EXCEPT ![r] = [@ EXCEPT !.pc = "written",
                                           !.disk = writeFiles(@, gen[r].result.files.Files, clean)]]
    /\ UNCHANGED selectVars

NextGen ==
    \E r \in Runs :
        \/ \E schema \in Schemas : GenerateFilesBegin(r, schema)
        \/ GenerateFilesValidate(r)
        \/ GenerateFilesTables(r)
        \/ GenerateFilesBuilder(r)
        \/ GenerateFilesReturn(r)
        \/ \E clean \in BOOLEAN : GenerateWrite(r, clean)

\* one Generator, Generate called on a schema
SpecGen == InitGen /\ [][NextGen]_vars

NextGenTwice ==
    \E r \in Runs :
        \/ \E schema \in Schemas : GenerateFilesBegin(r, schema)
        \/ GenerateFilesAgain(r)
        \/ GenerateFilesValidate(r)
        \/ GenerateFilesTables(r)
        \/ GenerateFilesBuilder(r)
        \/ GenerateFilesReturn(r)

\* one Generator, GenerateFiles called on a schema and then again on that
\* schema, any number of times
SpecGenTwice == InitGen /\ [][NextGenTwice]_vars

(***************************************************************************)
(* Properties of the generator.                                            *)
(***************************************************************************)
\* two table configs carry the same type name, or some junction config has
\* not exactly two relations
Invalid(schema) ==
    \/ \E i, j \in DOMAIN schema.Tables :
           i # j /\ getTypeName(schema.Tables[i].Schema) = getTypeName(schema.Tables[j].Schema)
    \/ \E i \in DOMAIN schema.Junctions : Len(schema.Junctions[i].Relations) # 2

ValidationErrors(schema) ==
    {"invalid configuration: duplicate table: " \o getTypeName(schema.Tables[i].Schema) : i \in DOMAIN schema.Tables}
    \cup {"invalid configuration: junction table " \o getTypeName(schema.Junctions[i].Schema)
              \o " must have exactly 2 relations, got " \o ToString(Len(schema.Junctions[i].Relations)) :
          i \in DOMAIN schema.Junctions}

\* C21: once GenerateFiles is entered with a schema that repeats a table type
\* name or has a junction config without exactly two relations, the run
\* produces no file content at any point, ends failed with a validation
\* error and an empty file map, and nothing is written
InvalidSchemaFailsBeforeFiles ==
    \A r \in Runs :
        (gen[r].pc # "idle" /\ Invalid(gen[r].schema))
        => /\ gen[r].pc \in {"validate", "failed"}
           /\ DOMAIN gen[r].files = {}
           /\ DOMAIN gen[r].disk = {}
           /\ gen[r].pc = "failed"
                  => /\ gen[r].result.err \in ValidationErrors(gen[r].schema)
                     /\ DOMAIN gen[r].result.files.Files = {}

InvalidSchemaFailsBeforeFilesWitness ==
    \E r \in Runs :
        /\ gen[r].pc = "failed"
        /\ Invalid(gen[r].schema)
        /\ Len(gen[r].schema.Tables) = 2
        /\ gen[r].schema.Junctions # <<>>

\* the relation map is built in this state of run r
MapsBuilt(r) == gen[r].pc \in {"tables", "builders", "returned", "written"}

\* the entries of a relation map, each with the type name it is stored under
Entries(relationMap) ==
    UNION {{<<owner, relationMap[owner][n]>> : n \in DOMAIN relationMap[owner]} : owner \in DOMAIN relationMap}

EntriesOfType(relationMap, type) == {e \in Entries(relationMap) : e[2].Type = type}

\* the relations declared on the table configs, each with the declaring type name
Declared(schema) ==
    UNION {{<<getTypeName(schema.Tables[i].Schema), schema.Tables[i].Relations[j]>> :
               j \in DOMAIN schema.Tables[i].Relations} : i \in DOMAIN schema.Tables}

\* C22: the belongs-to relations of the relation map are, for every relation
\* declared on a table config, one on the declaring type with that name and
\* target and keys (from, to); its has-many relations are, for every declared
\* relation with a reverse name and for no other, one on the target type under
\* the reverse name, pointing to the declaring type with keys (to, from)
DeclaredRelationsDerived ==
    \A r \in Runs :
        MapsBuilt(r)
        => /\ EntriesOfType(gen[r].relationMap, "belongs_to")
                 = {<<d[1], [Name |-> d[2].Name, Type |-> "belongs_to", Target |-> d[2].Target,
                             Keys |-> [From |-> d[2].From, To |-> d[2].To],
                             JunctionTable |-> "", JunctionKeys |-> [From |-> "", To |-> ""]]>> :
                       d \in Declared(gen[r].schema)}
           /\ EntriesOfType(gen[r].relationMap, "has_many")
                 = {<<d[2].Target, [Name |-> d[2].ReverseName, Type |-> "has_many", Target |-> d[1],
                                    Keys |-> [From |-> d[2].To, To |-> d[2].From],
                                    JunctionTable |-> "", JunctionKeys |-> [From |-> "", To |-> ""]]>> :
                       d \in {x \in Declared(gen[r].schema) : x[2].ReverseName # ""}}

DeclaredRelationsDerivedWitness ==
    \E r \in Runs :
        /\ gen[r].pc = "returned"
        /\ EntriesOfType(gen[r].relationMap, "has_many") # {}
        /\ \E d \in Declared(gen[r].schema) : d[2].ReverseName = ""

\* the junction configs of the schema with their two relations in either order
Directions(schema) ==
    UNION {{<<getTypeName(schema.Junctions[i].Schema), schema.Junctions[i].Relations[1], schema.Junctions[i].Relations[2]>>,
            <<getTypeName(schema.Junctions[i].Schema), schema.Junctions[i].Relations[2], schema.Junctions[i].Relations[1]>>} :
           i \in DOMAIN schema.Junctions}

\* the many-to-many relation on a's target toward b's target through junction
ManyToManyEntry(junction, a, b) ==
    <<a.Target, [Name |-> a.ReverseName, Type |-> "many_to_many", Target |-> b.Target,
                 Keys |-> [From |-> a.To, To |-> a.From],
                 JunctionTable |-> junction, JunctionKeys |-> [From |-> b.From, To |-> b.To]]>>

\* C23 as claimed: every junction config gives a many-to-many relation in each
\* of its two directions, with the keys chained through the junction table
JunctionGivesBothDirections ==
    \A r \in Runs :
        MapsBuilt(r)
        => \A d \in Directions(gen[r].schema) :
               \E e \in EntriesOfType(gen[r].relationMap, "many_to_many") :
                   /\ e[1] = d[2].Target
                   /\ e[2].Target = d[3].Target
                   /\ e[2].JunctionTable = d[1]
                   /\ e[2].Keys = [From |-> d[2].To, To |-> d[2].From]
                   /\ e[2].JunctionKeys = [From |-> d[3].From, To |-> d[3].To]

\* C23 as amended: the many-to-many relations of the relation map are, for
\* every junction config and each of its two directions whose relation has a
\* reverse name, and for no other, one on that relation's target toward the
\* other relation's target: base key to of the first matched to its junction
\* column from, junction column from of the second matched to its target key to
JunctionGivesNamedDirections ==
    \A r \in Runs :
        MapsBuilt(r)
        => EntriesOfType(gen[r].relationMap, "many_to_many")
              = {ManyToManyEntry(d[1], d[2], d[3]) :
                    d \in {x \in Directions(gen[r].schema) : x[2].ReverseName # ""}}

JunctionGivesNamedDirectionsWitness ==
    \E r \in Runs :
        /\ gen[r].pc = "returned"
        /\ gen[r].schema.Junctions # <<>>
        /\ Cardinality(EntriesOfType(gen[r].relationMap, "many_to_many")) = 2
        /\ ManyToManyEntry("PostTag", PostRelation, TagRelation) \in Entries(gen[r].relationMap)

\* the snake_case form of the type names of the schemas
SnakeCaseOf == [User |-> "user", Post |-> "post", Tag |-> "tag", PostTag |-> "post_tag", Tables |-> "tables"]

\* C24 as claimed: the file map GenerateFiles returns without error holds
\* tables/tables.go, rendered from the tables template, and for every table
\* config the query builder of its type at package/package.go, the package
\* being the snake_case form of the type name: one entry more than there are
\* table configs
OneFilePerTableAndTables ==
    \A r \in Runs :
        gen[r].pc = "returned"
        => LET files == gen[r].result.files.Files
               tables == gen[r].schema.Tables
           IN  /\ Cardinality(DOMAIN files) = Len(tables) + 1
               /\ TablesPath \in DOMAIN files
               /\ files[TablesPath].template = "tables"
               /\ \A i \in DOMAIN tables :
                      LET typeName == getTypeName(tables[i].Schema)
                          path == SnakeCaseOf[typeName] \o "/" \o SnakeCaseOf[typeName] \o ".go"
                      IN  /\ path \in DOMAIN files
                          /\ files[path].template = "queryBuilder"
                          /\ files[path].data.TypeName = typeName

\* C28 as claimed: when GenerateFiles returns a file map for a schema it
\* returned a file map for before, the two maps are equal
SameSchemaSameFiles ==
    \A r \in Runs :
        (/\ gen[r].pc = "returned"
         /\ gen[r].prev # Nil
         /\ gen[r].prev.schema = gen[r].schema
         /\ gen[r].prev.result.err = "")
        => gen[r].result.files = gen[r].prev.result.files

\* the generated query builder files that have this relation of this type name
ModulesWith(files, owner, relation) ==
    {path \in DOMAIN files :
        /\ files[path].template = "queryBuilder"
        /\ files[path].data.TypeName = owner
        /\ \E n \in DOMAIN files[path].data.Relations : files[path].data.Relations[n] = relation}

\* C30 as claimed: every relation of the relation map is among the relations
\* of exactly one query builder file of the returned file map, the one of the
\* type name it is stored under
EveryDerivedRelationEmitted ==
    \A r \in Runs :
        gen[r].pc = "returned"
        => \A e \in Entries(gen[r].relationMap) :
               Cardinality(ModulesWith(gen[r].result.files.Files, e[1], e[2])) = 1

(***************************************************************************)
(* Further properties of Select.                                           *)
(***************************************************************************)
\* And() or Or() of no sub-expression, bare or wrapped in Not
EmptyCombinator(opt) ==
    \/ opt.k = "logicalOp" /\ opt.opts = <<>>
    \/ opt.k = "Not" /\ opt.opt.k = "logicalOp" /\ opt.opt.opts = <<>>

\* C27 as claimed: applying And() or Or() of an empty list, bare or wrapped in
\* Not, leaves the WHERE clause and the parameter list of the call as they
\* were
EmptyCombinatorChangesNothing ==
    [][\A c \in Calls :
           (/\ pc[c] = "running"
            /\ hist'[c].n = hist[c].n + 1
            /\ EmptyCombinator(hist'[c].opt))
           => /\ q'[c].where = q[c].where
              /\ s'[c].Params = s[c].Params]_vars

RECURSIVE DeepParamNames(_)
RECURSIVE DeepParamNamesAll(_)
RECURSIVE DeepQueryParamNames(_)
\* the placeholder names of a node, those of the subqueries in it included
DeepParamNames(e) ==
    CASE e.k = "param" -> <<e.name>>
      [] e.k = "binary" -> DeepParamNames(e.left) \o DeepParamNames(e.right)
      [] e.k \in {"paren", "unary", "where", "item", "alias"} -> DeepParamNames(e.expr)
      [] e.k = "between" -> DeepParamNames(e.left) \o DeepParamNames(e.start) \o DeepParamNames(e.end)
      [] e.k = "in" -> DeepParamNames(e.left) \o DeepParamNamesAll(e.right)
      [] e.k = "join" -> DeepParamNames(e.left) \o DeepParamNames(e.right) \o DeepParamNames(e.cond)
      [] e.k \in {"exists", "scalar", "array"} -> DeepQueryParamNames(e.query)
      [] OTHER -> <<>>

DeepParamNamesAll(es) ==
    IF es = <<>> THEN <<>> ELSE DeepParamNames(Head(es)) \o DeepParamNamesAll(Tail(es))

\* the placeholder names of a query: result items, FROM, WHERE
DeepQueryParamNames(query) ==
    DeepParamNamesAll(query.results) \o DeepParamNames(query.from) \o DeepParamNames(query.where)

\* C25 as claimed: in what Select returns, every index of the parameter list
\* is the index of exactly one placeholder of the query, subqueries included,
\* and every placeholder of the query is p<i> for an index i of the list
EveryParamHasOnePlaceholder ==
    \A c \in Calls :
        pc[c] = "done"
        => LET names == DeepQueryParamNames(ret[c].query)
               params == ret[c].params
           IN  /\ \A i \in 0..(Len(params) - 1) :
                      Cardinality({j \in DOMAIN names : names[j] = ParamName(i)}) = 1
               /\ \A j \in DOMAIN names :
                      \E i \in 0..(Len(params) - 1) : names[j] = ParamName(i)

\* the names by which the members of a FROM source are referred to
Declares(source) == {FromMembers(source)[i] : i \in DOMAIN FromMembers(source)}

RECURSIVE Undeclared(_, _)
RECURSIVE UndeclaredAll(_, _)
RECURSIVE UndeclaredInQuery(_, _)
\* the table qualifiers of the column paths of a node that are not among the
\* names in scope; a subquery is read in the scope widened by its own FROM
Undeclared(e, scope) ==
    CASE e.k = "path" -> {e.idents[1]} \ scope
      [] e.k = "binary" -> Undeclared(e.left, scope) \cup Undeclared(e.right, scope)
      [] e.k \in {"paren", "unary", "where", "item", "alias"} -> Undeclared(e.expr, scope)
      [] e.k \in {"between", "in", "isnull"} -> Undeclared(e.left, scope)
      [] e.k = "join" -> Undeclared(e.left, scope) \cup Undeclared(e.right, scope)
                             \cup Undeclared(e.cond, scope)
      [] e.k = "orderby" -> UNION {Undeclared(e.items[i].expr, scope) : i \in DOMAIN e.items}
      [] e.k \in {"exists", "scalar", "array"} -> UndeclaredInQuery(e.query, scope)
      [] OTHER -> {}

UndeclaredAll(es, scope) ==
    IF es = <<>> THEN {} ELSE Undeclared(Head(es), scope) \cup UndeclaredAll(Tail(es), scope)

\* the undeclared qualifiers of a query read inside the scope given: those of
\* the subqueries among its result items, of its ON, WHERE and ORDER BY
UndeclaredInQuery(query, scope) ==
    LET inner == scope \cup Declares(query.from)
    IN  UndeclaredAll(query.results, inner) \cup Undeclared(query.from, inner)
            \cup Undeclared(query.where, inner)
            \cup (IF "orderBy" \in DOMAIN query THEN Undeclared(query.orderBy, inner) ELSE {})

\* C26 as claimed: in the query Select returns, every table qualifier of a
\* WHERE, ON or ORDER BY expression is a table name or alias of the FROM clause
\* of the query or subquery it sits in, or of a query around it
QualifiersAreDeclared ==
    \A c \in Calls :
        pc[c] = "done" => UndeclaredInQuery(ret[c].query, {}) = {}

(***************************************************************************)
(* Relations of a table to itself: a user has a manager, who is a user.    *)
(***************************************************************************)
SelfLoaders ==
    { [on |-> "user", name |-> "reports", shape |-> "many", target |-> "user",
       keys |-> [From |-> "id", To |-> "manager_id"],
       junction |-> "", junctionKeys |-> [From |-> "", To |-> ""]],
      [on |-> "user", name |-> "manager", shape |-> "one", target |-> "user",
       keys |-> [From |-> "manager_id", To |-> "id"],
       junction |-> "", junctionKeys |-> [From |-> "", To |-> ""]],
      [on |-> "user", name |-> "reports", shape |-> "exists", target |-> "user",
       keys |-> [From |-> "id", To |-> "manager_id"],
       junction |-> "", junctionKeys |-> [From |-> "", To |-> ""]] }

NextSelf ==
    \E c \in Calls :
        \/ \E t \in TableNames : SelectBegin(c, t)
        \/ /\ pc[c] = "running"
           /\ \E opt \in SubExprOpts(CurrentTable(c)) : ApplyExprOption(c, MaxOptsSub, opt)
        \/ \E l \in Loaders \cup SelfLoaders : ApplyLoader(c, MaxOptsSub, l)
        \/ \E l \in Loaders \cup SelfLoaders : ApplyWhereExists(c, MaxOptsSub, l)
        \/ SubqueryReturn(c)
        \/ SelectReturn(c)

\* one Select call at a time whose options compose subqueries, among them
\* those of a relation of user to itself
SpecSelf == Init /\ [][NextSelf]_vars

RECURSIVE SubqueriesIn(_)
RECURSIVE SubqueriesInQuery(_)
\* the queries of the subquery expressions of a node, at any depth
SubqueriesIn(e) ==
    CASE e.k = "binary" -> SubqueriesIn(e.left) \cup SubqueriesIn(e.right)
      [] e.k \in {"paren", "unary", "where", "item", "alias"} -> SubqueriesIn(e.expr)
      [] e.k \in {"exists", "scalar", "array"} -> {e.query} \cup SubqueriesInQuery(e.query)
      [] OTHER -> {}

SubqueriesInQuery(query) ==
    UNION {SubqueriesIn(query.results[i]) : i \in DOMAIN query.results}
        \cup SubqueriesIn(query.where)

RECURSIVE FirstConjunct(_)
\* the first condition of a chain of ANDs: the correlation of a subquery,
\* which the composers build before the nested predicates are ANDed on
FirstConjunct(e) ==
    IF e.k = "binary" /\ e.op = "AND" THEN FirstConjunct(e.left) ELSE e

\* C29 as claimed: in the query Select returns, the correlation condition of
\* every subquery compares columns of two different qualifiers: the subquery's
\* own table or junction table on one side, the parent's alias on the other
CorrelationNamesTwoTables ==
    \A c \in Calls :
        pc[c] = "done"
        => \A sub \in SubqueriesInQuery(ret[c].query) :
               LET correlation == FirstConjunct(sub.where.expr)
               IN  /\ correlation.k = "binary"
                   /\ correlation.op = "="
                   /\ correlation.left.idents[1] # correlation.right.idents[1]

====
